---------------------------- MODULE Spec2Model ----------------------------
(***************************************************************************)
(* Model of the compiler front-end toolkit: the SLR(1) side (grammar       *)
(* loader, FIRST/FOLLOW, LR(0) canonical collection, SLR table builder and *)
(* shift/reduce driver) and the lexer side (DFA loader, NFA union, subset  *)
(* construction, longest-match simulation).                                *)
(*                                                                         *)
(* The marker 'ε' of the sources is written "eps" here; every other symbol *)
(* keeps its spelling.                                                     *)
(***************************************************************************)
EXTENDS Integers, Sequences, FiniteSets, TLC

VARIABLES
    pc,             \* position in main(): which stage runs next
    grammar,        \* Grammar object: non_terminals, terminals, start_symbol, productions
    first,          \* dict returned by compute_first (shared with compute_follow)
    follow,         \* dict returned by compute_follow
    states,         \* canonical_collection: list of LR(0) item sets
    transitions,    \* canonical_collection: (item set, symbol) -> item set
    action_table,   \* build_slr_table: (state idx, terminal) -> action
    goto_table,     \* build_slr_table: (state idx, non-terminal) -> state idx
    tbl,            \* build_slr_table loop position: state index and items still to visit
    token_list,     \* slr_parse_from_file: tokens loaded from the token file
    stack,          \* slr_parse_from_file: parse stack
    pointer,        \* slr_parse_from_file: index into input_tokens
    symbol_table,   \* SymbolTable: symbols and counter
    result,         \* outcome of slr_parse_from_file
    lex             \* lexer pipeline state (patterns, union NFA, DFA, scanner)

vars == <<pc, grammar, first, follow, states, transitions, action_table,
          goto_table, tbl, token_list, stack, pointer, symbol_table, result, lex>>

Eps == "eps"
EndMarker == "$"

-----------------------------------------------------------------------------
(* Generic helpers *)

Range(s) == {s[i] : i \in 1..Len(s)}

RECURSIVE SeqsUpTo(_, _)
SeqsUpTo(S, n) ==
    IF n = 0 THEN {<<>>}
    ELSE LET shorter == SeqsUpTo(S, n - 1)
         IN  shorter \cup {Append(s, x) : s \in {t \in shorter : Len(t) = n - 1}, x \in S}

RECURSIVE Flatten(_)
Flatten(ss) == IF ss = <<>> THEN <<>> ELSE Head(ss) \o Flatten(Tail(ss))

Reverse(s) == [i \in 1..Len(s) |-> s[Len(s) + 1 - i]]

\* ss[lo] \o ... \o ss[hi], by halves
RECURSIVE ConcatRange(_, _, _)
ConcatRange(ss, lo, hi) ==
    IF lo > hi THEN <<>>
    ELSE IF lo = hi THEN ss[lo]
    ELSE ConcatRange(ss, lo, (lo + hi) \div 2) \o ConcatRange(ss, (lo + hi) \div 2 + 1, hi)

\* a loop whose index s.i only grows: the state after every iteration that starts at an
\* index in lo..hi-1, by halves (Step is the loop body; s.i >= lo on entry); the first
\* half is computed before the second is entered
RECURSIVE Iterate(_, _, _, _)
Iterate(Step(_), s, lo, hi) ==
    IF lo >= hi THEN s
    ELSE IF hi - lo = 1 THEN (IF s.i < hi THEN Step(s) ELSE s)
    ELSE LET half == Iterate(Step, s, lo, (lo + hi) \div 2)
         IN  IF half.i >= lo THEN Iterate(Step, half, (lo + hi) \div 2, hi) ELSE half

-----------------------------------------------------------------------------
(* Grammar loader: grammar.py *)

\* One line "LHS ::= alt1 | alt2 | ..." of a grammar file, already split: each
\* alternative is the list of its whitespace-separated symbols ("" splits to <<>>).
Line(lhs, alts) == [lhs |-> lhs, alts |-> alts]

\* productions.append((lhs, rhs)) for each alternative of each line, in file order
LineProductions(line) == [k \in 1..Len(line.alts) |-> [lhs |-> line.lhs, rhs |-> line.alts[k]]]

FileProductions(file) == Flatten([k \in 1..Len(file) |-> LineProductions(file[k])])

\* _infer_terminals: all rhs symbols that are not non-terminals
InferTerminals(productions, non_terminals) ==
    UNION {Range(productions[k].rhs) : k \in 1..Len(productions)} \ non_terminals

\* Grammar.load_grammar
LoadGrammar(file) ==
    LET prods == FileProductions(file)
        nts   == {file[k].lhs : k \in 1..Len(file)}
    IN  [non_terminals |-> nts,
         terminals     |-> InferTerminals(prods, nts),
         start_symbol  |-> file[1].lhs,
         productions   |-> prods]

-----------------------------------------------------------------------------
(* FIRST: first_follow.py compute_first *)

\* Steps 1 and 2: FIRST(t) = {t} for terminals, {} for non-terminals
FirstInit(g) ==
    [X \in g.terminals \cup g.non_terminals |-> IF X \in g.non_terminals THEN {} ELSE {X}]

\* mutant of FirstScan: the break leaves nullable_prefix True
RECURSIVE FirstScanNoFlag(_, _, _, _)
FirstScanNoFlag(f, lhs, rhs, k) ==
    IF k > Len(rhs) THEN [f EXCEPT ![lhs] = @ \cup {Eps}]
    ELSE LET f1 == [f EXCEPT ![lhs] = @ \cup (f[rhs[k]] \ {Eps})]
         IN  IF Eps \notin f1[rhs[k]] THEN [f1 EXCEPT ![lhs] = @ \cup {Eps}]
             ELSE FirstScanNoFlag(f1, lhs, rhs, k + 1)

\* the for-loop over the symbols of a rhs, from symbol k on, with nullable_prefix still True
RECURSIVE FirstScan(_, _, _, _)
FirstScan(f, lhs, rhs, k) ==
    IF k > Len(rhs) THEN [f EXCEPT ![lhs] = @ \cup {Eps}]
    ELSE LET f1 == [f EXCEPT ![lhs] = @ \cup (f[rhs[k]] \ {Eps})]
         IN  IF Eps \notin f1[rhs[k]] THEN f1 ELSE FirstScan(f1, lhs, rhs, k + 1)

\* body of "for lhs, rhs in grammar.productions"
FirstProduction(f, p) ==
    IF p.rhs = <<>> \/ p.rhs = <<Eps>>
    THEN [f EXCEPT ![p.lhs] = @ \cup {Eps}]
    ELSE FirstScan(f, p.lhs, p.rhs, 1)

\* one pass of the while loop over the productions k..n, in list order
RECURSIVE FirstPass(_, _, _)
FirstPass(f, prods, k) ==
    IF k > Len(prods) THEN f ELSE FirstPass(FirstProduction(f, prods[k]), prods, k + 1)

\* "while changed": the sets only grow, so a pass changed something iff some len grew
RECURSIVE FirstLoop(_, _)
FirstLoop(f, prods) ==
    LET f1 == FirstPass(f, prods, 1) IN IF f1 = f THEN f ELSE FirstLoop(f1, prods)

compute_first(g) == FirstLoop(FirstInit(g), g.productions)

-----------------------------------------------------------------------------
(* FOLLOW: first_follow.py compute_follow.  The trailer is either a set of *)
(* its own (follow[lhs].copy()) or the very set object first[X] ("trailer  *)
(* = first[symbol]"): in the second case trailer.update writes first[X].   *)

\* the value the name "trailer" denotes
TrailerValue(s) == IF s.own THEN s.trailer ELSE s.first[s.ref]

\* trailer.update(add)
TrailerUpdate(s, add) ==
    IF s.own THEN [s EXCEPT !.trailer = @ \cup add]
    ELSE [s EXCEPT !.first[s.ref] = @ \cup add]

\* trailer = first[symbol]
TrailerBind(s, symbol) == [s EXCEPT !.own = FALSE, !.ref = symbol]

\* mutant of FollowSymbol: a terminal leaves the trailer as it is
FollowSymbolKeepTrailer(s, g, symbol) ==
    IF symbol \in g.non_terminals
    THEN LET s1 == [s EXCEPT !.follow[symbol] = @ \cup TrailerValue(s)]
         IN  IF Eps \in s1.first[symbol]
             THEN TrailerUpdate(s1, s1.first[symbol] \ {Eps})
             ELSE TrailerBind(s1, symbol)
    ELSE s

\* body of "for symbol in reversed(rhs)"
FollowSymbol(s, g, symbol) ==
    IF symbol \in g.non_terminals
    THEN LET s1 == [s EXCEPT !.follow[symbol] = @ \cup TrailerValue(s)]
         IN  IF Eps \in s1.first[symbol]
             THEN TrailerUpdate(s1, s1.first[symbol] \ {Eps})
             ELSE TrailerBind(s1, symbol)
    ELSE TrailerBind(s, symbol)

RECURSIVE FollowSweep(_, _, _, _)
FollowSweep(s, g, rrhs, k) ==
    IF k > Len(rrhs) THEN s ELSE FollowSweep(FollowSymbol(s, g, rrhs[k]), g, rrhs, k + 1)

\* body of "for lhs, rhs in grammar.productions"
FollowProduction(s, g, p) ==
    FollowSweep([s EXCEPT !.own = TRUE, !.trailer = s.follow[p.lhs]], g, Reverse(p.rhs), 1)

RECURSIVE FollowPass(_, _, _)
FollowPass(s, g, k) ==
    IF k > Len(g.productions) THEN s
    ELSE FollowPass(FollowProduction(s, g, g.productions[k]), g, k + 1)

\* "while changed": changed is set only when some follow set grew
RECURSIVE FollowLoop(_, _)
FollowLoop(s, g) ==
    LET s1 == FollowPass(s, g, 1) IN IF s1.follow = s.follow THEN s1 ELSE FollowLoop(s1, g)

\* follow = defaultdict(set); follow[start].add('$'); every lhs gets a key at "follow[lhs].copy()"
FollowInit(g) == [A \in g.non_terminals |-> IF A = g.start_symbol THEN {EndMarker} ELSE {}]

\* compute_follow(grammar, first): the record holds the returned follow and the
\* first dict as the call leaves it
compute_follow(g, f) ==
    FollowLoop([follow |-> FollowInit(g), first |-> f, own |-> TRUE, trailer |-> {}, ref |-> Eps], g)

-----------------------------------------------------------------------------
(* LR(0) items: lr0_items.py.  An item (lhs, rhs, dot_pos); rhs[dot_pos] of *)
(* the source is rhs[dot + 1] here (sequences start at 1).                  *)

Item(lhs, rhs, dot) == [lhs |-> lhs, rhs |-> rhs, dot |-> dot]

\* the symbol after the dot, for an item whose dot is not at the end
NextSymbol(item) == item.rhs[item.dot + 1]

\* mutant of closure: one pass of "while changed"
ClosureOnePass(items, g) ==
    items \cup {Item(g.productions[k].lhs, g.productions[k].rhs, 0) :
                    k \in {j \in 1..Len(g.productions) :
                            \E item \in items :
                                /\ item.dot < Len(item.rhs)
                                /\ NextSymbol(item) \in g.non_terminals
                                /\ g.productions[j].lhs = NextSymbol(item)}}

\* closure(items, grammar)
RECURSIVE closure(_, _)
closure(items, g) ==
    LET new_items ==
            {Item(g.productions[k].lhs, g.productions[k].rhs, 0) :
                k \in {j \in 1..Len(g.productions) :
                        \E item \in items :
                            /\ item.dot < Len(item.rhs)
                            /\ NextSymbol(item) \in g.non_terminals
                            /\ g.productions[j].lhs = NextSymbol(item)}} \ items
    IN  IF new_items = {} THEN items ELSE closure(items \cup new_items, g)

\* goto(items, symbol, grammar)
goto(items, symbol, g) ==
    LET goto_set == {Item(item.lhs, item.rhs, item.dot + 1) :
                        item \in {it \in items : it.dot < Len(it.rhs) /\ NextSymbol(it) = symbol}}
    IN  IF goto_set # {} THEN closure(goto_set, g) ELSE {}

\* augmented_start = start + "'", with more primes while the name is taken
RECURSIVE AugmentedStart(_, _)
AugmentedStart(name, non_terminals) ==
    IF name \in non_terminals THEN AugmentedStart(name \o "'", non_terminals) ELSE name

\* the augmentation canonical_collection performs on the grammar object
Augment(g) ==
    LET augmented_start == AugmentedStart(g.start_symbol \o "'", g.non_terminals)
    IN  [g EXCEPT !.productions   = <<[lhs |-> augmented_start, rhs |-> <<g.start_symbol>>]>> \o @,
                  !.non_terminals = @ \cup {augmented_start},
                  !.start_symbol  = augmented_start]

\* mutant of SymbolsAfterDot: only the items with the dot at the start are looked at
SymbolsAfterDotStart(state) == {NextSymbol(item) : item \in {it \in state : it.dot = 0 /\ it.dot < Len(it.rhs)}}

\* symbols that appear after the dot in a state
SymbolsAfterDot(state) == {NextSymbol(item) : item \in {it \in state : it.dot < Len(it.rhs)}}

\* "for symbol in symbols": the source iterates a set, in an order the language
\* leaves open; the order only decides how the states after state 0 are numbered.
RECURSIVE CollectSymbols(_, _, _, _)
CollectSymbols(c, g, state, symbols) ==
    IF symbols = {} THEN c
    ELSE LET symbol == CHOOSE x \in symbols : TRUE
             target == goto(state, symbol, g)
             rest   == symbols \ {symbol}
         IN  IF target = {} THEN CollectSymbols(c, g, state, rest)
             ELSE IF target \notin Range(c.states) /\ target \notin Range(c.new_states)
             THEN CollectSymbols([c EXCEPT !.new_states = Append(@, target),
                                           !.transitions = (<<state, symbol>> :> target) @@ @],
                                 g, state, rest)
             ELSE CollectSymbols([c EXCEPT !.transitions = (<<state, symbol>> :> target) @@ @],
                                 g, state, rest)

\* "for state in states", from the k-th state of the list on
RECURSIVE CollectStates(_, _, _)
CollectStates(c, g, k) ==
    IF k > Len(c.states) THEN c
    ELSE CollectStates(CollectSymbols(c, g, c.states[k], SymbolsAfterDot(c.states[k])), g, k + 1)

\* "while added": one pass, then states.extend(new_states)
RECURSIVE CollectLoop(_, _)
CollectLoop(c, g) ==
    LET c1 == CollectStates([c EXCEPT !.new_states = <<>>], g, 1)
    IN  IF c1.new_states = <<>> THEN c1
        ELSE CollectLoop([c1 EXCEPT !.states = @ \o c1.new_states], g)

\* canonical_collection(grammar): the grammar as augmented, states and transitions
canonical_collection(g) ==
    LET ag          == Augment(g)
        start_item  == Item(ag.start_symbol, <<ag.productions[1].rhs[1]>>, 0)
        start_state == closure({start_item}, ag)
        c == CollectLoop([states |-> <<start_state>>, new_states |-> <<>>, transitions |-> <<>>], ag)
    IN  [grammar |-> ag, states |-> c.states, transitions |-> c.transitions]

-----------------------------------------------------------------------------
(* SLR table: slr_table.py build_slr_table.  State indices are those of the *)
(* source (0-based): states[idx] of the source is states[idx + 1] here.     *)

ShiftAction(n)         == [kind |-> "shift",  state |-> n,  lhs |-> "",  rhs |-> <<>>]
ReduceAction(lhs, rhs) == [kind |-> "reduce", state |-> -1, lhs |-> lhs, rhs |-> rhs]
AcceptAction           == [kind |-> "accept", state |-> -1, lhs |-> "",  rhs |-> <<>>]

\* states.index(set(target))
StateIndex(sts, target) == (CHOOSE i \in 1..Len(sts) : sts[i] = target /\ \A j \in 1..(i - 1) : sts[j] # target) - 1

\* the ACTION entries one item of state idx writes: a function key -> action
ItemActions(g, sts, trans, fol, idx, item) ==
    IF item.dot < Len(item.rhs)
    THEN LET symbol == NextSymbol(item)
             key    == <<sts[idx + 1], symbol>>
         IN  IF symbol \in g.terminals /\ key \in DOMAIN trans
             THEN <<idx, symbol>> :> ShiftAction(StateIndex(sts, trans[key]))
             ELSE <<>>
    ELSE IF item.lhs # g.start_symbol
    THEN [key \in {<<idx, terminal>> : terminal \in fol[item.lhs]} |-> ReduceAction(item.lhs, item.rhs)]
    ELSE <<idx, EndMarker>> :> AcceptAction

\* the GOTO entry one item of state idx writes
ItemGotos(g, sts, trans, idx, item) ==
    IF item.dot < Len(item.rhs)
    THEN LET symbol == NextSymbol(item)
             key    == <<sts[idx + 1], symbol>>
         IN  IF symbol \notin g.terminals /\ symbol \in g.non_terminals /\ key \in DOMAIN trans
             THEN <<idx, symbol>> :> StateIndex(sts, trans[key])
             ELSE <<>>
    ELSE <<>>

\* a write table[key] = value that finds a different value already there
Overwrites(table, writes) == \E key \in DOMAIN writes : key \in DOMAIN table /\ table[key] # writes[key]

-----------------------------------------------------------------------------
(* Driver: slr_parser.py *)

Token(lexeme, kind) == [lexeme |-> lexeme, kind |-> kind]

\* mutant of TokenRemap: the lexer's kind names are kept
TokenRemapNone(token_type) == token_type

\* TOKEN_REMAP.get(token_type, token_type)
TokenRemap(token_type) ==
    CASE token_type = "plus"  -> "+"
      [] token_type = "times" -> "*"
      [] token_type = "lpar"  -> "("
      [] token_type = "rpar"  -> ")"
      [] token_type = "minus" -> "-"
      [] token_type = "div"   -> "/"
      [] OTHER                -> token_type

\* load_tokens_from_file, on a file of well-formed "<lexeme, kind>" lines
load_tokens_from_file(file) == [k \in 1..Len(file) |-> Token(file[k].lexeme, TokenRemap(file[k].kind))]

\* mutant of ErrorTokens: only the first token is looked at
ErrorTokensFirst(tokens) == {k \in 1..Len(tokens) : k = 1 /\ tokens[k].kind = "erro!"}

\* error_tokens = [t for t in token_list if t[1] == 'erro!']
ErrorTokens(tokens) == {k \in 1..Len(tokens) : tokens[k].kind = "erro!"}

\* input_tokens = token_list + [('$', '$')]
InputTokens(tokens) == Append(tokens, Token(EndMarker, EndMarker))

\* stack entries: a state index (sym = "") or a grammar symbol (st = -1)
StateEntry(n) == [st |-> n, sym |-> ""]
SymbolEntry(X) == [st |-> -1, sym |-> X]

reserved_words == {"for", "if", "else", "while", "return"}

\* SymbolTable.__init__
NewSymbolTable == [symbols |-> <<>>, counter |-> 1]

\* mutant of add_or_get: the counter is not advanced
AddOrGetNoCount(table, lexeme) ==
    IF lexeme \in DOMAIN table.symbols THEN table
    ELSE [symbols |-> (lexeme :> [index    |-> table.counter,
                                  category |-> IF lexeme \in reserved_words THEN "PR" ELSE "ID"])
                      @@ table.symbols,
          counter |-> table.counter]

\* mutant of add_or_get: a repeated lexeme is entered again under a new index
AddOrGetAgain(table, lexeme) ==
    [symbols |-> (lexeme :> [index    |-> table.counter,
                             category |-> IF lexeme \in reserved_words THEN "PR" ELSE "ID"])
                 @@ table.symbols,
     counter |-> table.counter + 1]

\* SymbolTable.add_or_get: the table after the call
add_or_get(table, lexeme) ==
    IF lexeme \in DOMAIN table.symbols THEN table
    ELSE [symbols |-> (lexeme :> [index    |-> table.counter,
                                  category |-> IF lexeme \in reserved_words THEN "PR" ELSE "ID"])
                      @@ table.symbols,
          counter |-> table.counter + 1]

\* mutant of PopStack: one entry popped per rhs symbol
PopStackHalf(stk, rhs) ==
    IF rhs # <<Eps>> THEN SubSeq(stk, 1, Len(stk) - Len(rhs)) ELSE stk

\* "if rhs != ('ε',): stack = stack[:-2 * len(rhs)]": the slice stack[:-0] is
\* stack[:0], the empty list, and so is stack[:-n] for n >= len(stack)
PopStack(stk, rhs) ==
    IF rhs # <<Eps>>
    THEN LET pop_length == 2 * Len(rhs)
         IN  IF pop_length = 0 \/ pop_length >= Len(stk) THEN <<>>
             ELSE SubSeq(stk, 1, Len(stk) - pop_length)
    ELSE stk

\* values of the driver's locals at the top of "while True"
CurState == stack[Len(stack)].st
CurToken == InputTokens(token_list)[pointer + 1]
CurKey   == <<CurState, CurToken.kind>>
CurAction == action_table[CurKey]

Outcome(value, why) == [value |-> value, why |-> why]
NoOutcome == Outcome("none", "")

-----------------------------------------------------------------------------
(* NFA model, loader and union: afn.py, automaton_operations.py.            *)
(* transitions[state][symbol] is a set of states; a dict is a function.     *)

AFN(sts, start_state, final_states, trans, alphabet, token_types) ==
    [states |-> sts, start_state |-> start_state, final_states |-> final_states,
     transitions |-> trans, alphabet |-> alphabet, token_types |-> token_types]

\* a file in the DFA serialization format: the header lines and the "src,symbol,dst" lines
AfdFile(num_states, start, accepts, alphabet, lines) ==
    [num_states |-> num_states, start |-> start, accepts |-> accepts,
     alphabet |-> alphabet, lines |-> lines]

\* AFN.load_afd_from_file(filepath, token_type)
load_afd_from_file(file, token_type) ==
    LET lines == Range(file.lines)
        srcs  == {l[1] : l \in lines}
        trans == [src \in srcs |->
                    [symbol \in {l[2] : l \in {m \in lines : m[1] = src}} |->
                        {l[3] : l \in {m \in lines : m[1] = src /\ m[2] = symbol}}]]
        sts   == srcs \cup {l[3] : l \in lines}
        types == IF token_type # "" THEN [f \in file.accepts |-> token_type] ELSE <<>>
    IN  AFN(sts, file.start, file.accepts, trans, file.alphabet, types)

Max(S) == CHOOSE x \in S : \A y \in S : y <= x
Min(S) == CHOOSE x \in S : \A y \in S : x <= y

\* mutant of offset_states: the state numbers are kept
OffsetNone(afn, offset) == afn

\* AFN.offset_states(offset)
offset_states(afn, offset) ==
    AFN({q + offset : q \in afn.states},
        afn.start_state + offset,
        {q + offset : q \in afn.final_states},
        [q \in {r + offset : r \in DOMAIN afn.transitions} |->
            [symbol \in DOMAIN afn.transitions[q - offset] |->
                {d + offset : d \in afn.transitions[q - offset][symbol]}]],
        afn.alphabet,
        [q \in {r + offset : r \in DOMAIN afn.token_types} |-> afn.token_types[q - offset]])

\* the dict d at key k, or the empty dict / empty set
Row(trans, q) == IF q \in DOMAIN trans THEN trans[q] ELSE <<>>
Dests(trans, q, symbol) == IF symbol \in DOMAIN Row(trans, q) THEN Row(trans, q)[symbol] ELSE {}

\* "Merge transitions": afn1's rows, each row of afn2 added symbol by symbol
MergeTransitions(t1, t2) ==
    [q \in DOMAIN t1 \cup DOMAIN t2 |->
        [symbol \in DOMAIN Row(t1, q) \cup DOMAIN Row(t2, q) |->
            Dests(t1, q, symbol) \cup Dests(t2, q, symbol)]]

\* mutant of union: the new start is numbered from afn2 before it is offset
UnionStartBeforeOffset(afn1, afn2) ==
    LET offset    == Max(afn1.states) + 1
        afn2o     == offset_states(afn2, offset)
        new_start == Max(afn2.states) + 1
        merged    == MergeTransitions(afn1.transitions, afn2o.transitions)
        start_row == ("eps" :> {afn1.start_state, afn2o.start_state}) @@ Row(merged, new_start)
    IN  AFN(afn1.states \cup afn2o.states \cup {new_start},
            new_start,
            afn1.final_states \cup afn2o.final_states,
            (new_start :> start_row) @@ merged,
            afn1.alphabet \cup afn2o.alphabet \cup {"eps"},
            afn2o.token_types @@ afn1.token_types)

\* AutomatonOperations.union(afn1, afn2)
union(afn1, afn2) ==
    LET offset    == Max(afn1.states) + 1
        afn2o     == offset_states(afn2, offset)
        new_start == Max(afn2o.states) + 1
        merged    == MergeTransitions(afn1.transitions, afn2o.transitions)
        start_row == ("eps" :> {afn1.start_state, afn2o.start_state}) @@ Row(merged, new_start)
    IN  AFN(afn1.states \cup afn2o.states \cup {new_start},
            new_start,
            afn1.final_states \cup afn2o.final_states,
            (new_start :> start_row) @@ merged,
            afn1.alphabet \cup afn2o.alphabet \cup {"eps"},
            afn2o.token_types @@ afn1.token_types)

\* reduce(lambda a1, a2: union(a1, a2), afns): left fold, from the k-th automaton on
RECURSIVE UnionFold(_, _, _)
UnionFold(acc, afns, k) ==
    IF k > Len(afns) THEN acc ELSE UnionFold(union(acc, afns[k]), afns, k + 1)

-----------------------------------------------------------------------------
(* Subset construction: afn.py AFN.to_afd.  A DFA state is a set of NFA states. *)

\* mutant of epsilon_closure: the epsilon edges are followed once
EpsilonClosureOneStep(afn, sts) == sts \cup UNION {Dests(afn.transitions, q, "eps") : q \in sts}

\* epsilon_closure(states)
RECURSIVE epsilon_closure(_, _)
epsilon_closure(afn, sts) ==
    LET more == UNION {Dests(afn.transitions, q, "eps") : q \in sts} \ sts
    IN  IF more = {} THEN sts ELSE epsilon_closure(afn, sts \cup more)

\* move(states, symbol)
move(afn, sts, symbol) == UNION {Dests(afn.transitions, q, symbol) : q \in sts}

\* a set as a list, in some order: the order in which a Python set is iterated
RECURSIVE SetToSeq(_)
SetToSeq(S) == IF S = {} THEN <<>> ELSE LET x == CHOOSE y \in S : TRUE IN <<x>> \o SetToSeq(S \ {x})

\* the "while queue" loop: d holds queue, visited and transitions
RECURSIVE SubsetLoop(_, _)
SubsetLoop(afn, d) ==
    IF d.queue = <<>> THEN d
    ELSE LET current == Head(d.queue)
             target(symbol) == epsilon_closure(afn, move(afn, current, symbol))
             symbols == {symbol \in afn.alphabet \ {"eps"} : target(symbol) # {}}
             row     == [symbol \in symbols |-> target(symbol)]
             fresh   == {row[symbol] : symbol \in symbols} \ d.visited
         IN  SubsetLoop(afn, [queue       |-> Tail(d.queue) \o SetToSeq(fresh),
                              visited     |-> d.visited \cup fresh,
                              transitions |-> (current :> row) @@ d.transitions])

AFD(start_state, accept_states, trans, token_map) ==
    [start_state |-> start_state, accept_states |-> accept_states,
     transitions |-> trans, token_map |-> token_map]

\* AFN.to_afd(): the AFD; its token_map field is the second value returned
to_afd(afn) ==
    LET start_closure == epsilon_closure(afn, {afn.start_state})
        d == SubsetLoop(afn, [queue |-> <<start_closure>>, visited |-> {start_closure},
                              transitions |-> <<>>])
        accept_states == {D \in d.visited : D \cap afn.final_states # {}}
        token_map == [q \in afn.final_states \cap DOMAIN afn.token_types |-> afn.token_types[q]]
    IN  AFD(start_closure, accept_states, d.transitions, token_map)

-----------------------------------------------------------------------------
(* Lexer runtime: lexer_simulation.py simulate_dfa_on_text.  Indices are    *)
(* those of the source (0-based): text[k] of the source is text[k + 1].     *)
(* last_accepting = None is the empty set: no DFA state is empty.           *)

None == {}

\* mutant of ResolveToken: the largest sub-state with a token wins
ResolveTokenLargest(last_accepting, token_map) ==
    LET tagged == last_accepting \cap DOMAIN token_map
    IN  IF tagged # {} THEN token_map[Max(tagged)] ELSE "erro!"

\* "for substate in sorted(last_accepting): if substate in token_map", else "erro!"
ResolveToken(last_accepting, token_map) ==
    LET tagged == last_accepting \cap DOMAIN token_map
    IN  IF tagged # {} THEN token_map[Min(tagged)] ELSE "erro!"

\* mutant of ErrorToken: the rest of the text is reported as the erroneous lexeme
ErrorTokenRest(text, i) == Token(SubSeq(text, i + 1, Len(text)), "erro!")

\* mutant of ErrorToken: the erroneous character is left out of the lexeme
ErrorTokenEmpty(text, i) == Token(<<>>, "erro!")

\* "tokens.append((text[i], "erro!"))"
ErrorToken(text, i) == Token(<<text[i + 1]>>, "erro!")

\* mutant of InnerLoopRuns: the scan stops at the first accepting state
InnerLoopStopsAtAccept(dfa, state, text, current_index) ==
    /\ current_index < Len(text)
    /\ text[current_index + 1] \in DOMAIN Row(dfa.transitions, state)
    /\ state \notin dfa.accept_states

\* the inner "while current_index < len(text)" runs its body to the end (no break)
InnerLoopRuns(dfa, state, text, current_index) ==
    /\ current_index < Len(text)
    /\ text[current_index + 1] \in DOMAIN Row(dfa.transitions, state)

\* escaped_symbol_map.get(symbol, symbol) of simulate_dfa_on_line
escaped_symbol_map(symbol) ==
    IF symbol \in {"+", "-", "*", "/", "(", ")", "[", "]", "\\"} THEN "\\" \o symbol ELSE symbol

\* simulate_dfa_on_line: "while i < len(line)", the state after the loop, or None when
\* the loop returns (line, "erro!")
RECURSIVE LineLoop(_, _, _, _)
LineLoop(dfa, state, line, i) ==
    IF i >= Len(line) THEN state
    ELSE LET escaped_symbol == escaped_symbol_map(line[i + 1])
         IN  IF escaped_symbol \notin DOMAIN Row(dfa.transitions, state) THEN None
             ELSE LineLoop(dfa, dfa.transitions[state][escaped_symbol], line, i + 1)

\* simulate_dfa_on_line(dfa, token_map, line)
simulate_dfa_on_line(dfa, token_map, line) ==
    LET state == LineLoop(dfa, dfa.start_state, line, 0)
    IN  IF state # None /\ state \in dfa.accept_states
        THEN Token(line, ResolveToken(state, token_map))
        ELSE Token(line, "erro!")

-----------------------------------------------------------------------------
(* Regular expressions: regular_expression.py.  A pattern is the sequence of *)
(* its characters; a token is a string of one character or an escape.        *)

\* the printable characters in code point order, from the space (32) to ~ (126);
\* the backquote (96) has no string form here and is spelled out
Ascii ==
    << " ", "!", "\"", "#", "$", "%", "&", "'", "(", ")", "*", "+", ",", "-", ".", "/",
       "0", "1", "2", "3", "4", "5", "6", "7", "8", "9", ":", ";", "<", "=", ">", "?",
       "@", "A", "B", "C", "D", "E", "F", "G", "H", "I", "J", "K", "L", "M", "N", "O",
       "P", "Q", "R", "S", "T", "U", "V", "W", "X", "Y", "Z", "[", "\\", "]", "^", "_",
       "grave", "a", "b", "c", "d", "e", "f", "g", "h", "i", "j", "k", "l", "m", "n", "o",
       "p", "q", "r", "s", "t", "u", "v", "w", "x", "y", "z", "{", "|", "}", "~" >>

\* ord(c), up to a constant, and chr
Ord(c) == CHOOSE k \in 1..Len(Ascii) : Ascii[k] = c
Chr(k) == Ascii[k]

Chars == Range(Ascii)
Digits == {Chr(k) : k \in Ord("0")..Ord("9")}
Letters == {Chr(k) : k \in Ord("a")..Ord("z")} \cup {Chr(k) : k \in Ord("A")..Ord("Z")}

\* str.isalnum() and str.isspace() on a one-character string
\* (the Greek letter ε is alphanumeric as well)
IsAlnum(c) == c \in Letters \cup Digits \cup {Eps}
IsSpace(c) == c = " "

\* the two-character token of an escape
Escape(c) == "\\" \o c
IsEscape(token) == \E c \in Chars : token = Escape(c)

\* the value a function of the pipeline returns, or the exception it raises
Returned(value) == [err |-> "", value |-> value]
Raised(err) == [err |-> err, value |-> <<>>]

\* RegularExpression.from_definition_line, on the line "name: pattern"
RegexLine(name, pattern) == [name |-> name, pattern |-> pattern]

\* '|'.join(chars)
RECURSIVE JoinBar(_)
JoinBar(cs) ==
    IF Len(cs) <= 1 THEN cs ELSE <<Head(cs), "|">> \o JoinBar(Tail(cs))

\* expand_class: the while loop over the content of a class, from index i (0-based)
RECURSIVE ClassMembers(_, _)
ClassMembers(content, i) ==
    IF i >= Len(content) THEN <<>>
    ELSE IF i + 2 < Len(content) /\ content[i + 2] = "-"
         THEN LET lo == Ord(content[i + 1])
                  hi == Ord(content[i + 3])
              IN  [k \in 1..(IF hi >= lo THEN hi - lo + 1 ELSE 0) |-> Chr(lo + k - 1)]
                      \o ClassMembers(content, i + 3)
         ELSE <<content[i + 1]>> \o ClassMembers(content, i + 1)

expand_class(content) == <<"(">> \o JoinBar(ClassMembers(content, 0)) \o <<")">>

\* the end (1-based index of the closing bracket) of a match of \[([^\]]+)\] at k, or 0
ClassEnd(pattern, k) ==
    IF pattern[k] = "[" /\ k + 1 <= Len(pattern) /\ pattern[k + 1] # "]"
            /\ \E j \in (k + 2)..Len(pattern) : pattern[j] = "]"
    THEN Min({j \in (k + 2)..Len(pattern) : pattern[j] = "]"})
    ELSE 0

\* expand_character_classes: re.sub over the pattern, left to right from k
RECURSIVE ExpandFrom(_, _)
ExpandFrom(pattern, k) ==
    IF k > Len(pattern) THEN <<>>
    ELSE LET e == ClassEnd(pattern, k)
         IN  IF e # 0
             THEN expand_class(SubSeq(pattern, k + 1, e - 1)) \o ExpandFrom(pattern, e + 1)
             ELSE <<pattern[k]>> \o ExpandFrom(pattern, k + 1)

expand_character_classes(pattern) == ExpandFrom(pattern, 1)

\* read_token of add_concatenation_symbols: the length of the token at k (1-based)
ReadTokenLen(pattern, k) ==
    IF pattern[k] = "\\" THEN (IF k < Len(pattern) THEN 2 ELSE 1)
    ELSE IF pattern[k] = "["
         THEN LET closing == {j \in (k + 1)..Len(pattern) : pattern[j] = "]"}
              IN  IF closing = {} THEN Len(pattern) - k + 1 ELSE Min(closing) - k + 1
         ELSE 1

\* "tokens.append(read_token())": one iteration; a token is a list of characters
ReadTokenStep(pattern, s) ==
    LET n == ReadTokenLen(pattern, s.i + 1)
    IN  [i |-> s.i + n, tokens |-> Append(s.tokens, SubSeq(pattern, s.i + 1, s.i + n))]

\* "while i < len(pattern): tokens.append(read_token())"
ReadTokens(pattern) ==
    LET Step(s) == ReadTokenStep(pattern, s)
    IN  Iterate(Step, [i |-> 0, tokens |-> <<>>], 0, Len(pattern)).tokens

\* the local predicates of add_concatenation_symbols
is_character_class(token) == Len(token) >= 3 /\ token[1] = "[" /\ token[Len(token)] = "]"
is_literal(token) == (Len(token) = 1 /\ IsAlnum(token[1])) \/ token[1] = "\\"
is_operand(token) ==
    \/ is_character_class(token)
    \/ is_literal(token)
    \/ token = <<")">>
    \/ (token[1] = "\\" /\ Len(token) = 2)
is_prefix(token) ==
    \/ token \in {<<"*">>, <<"+">>, <<"?">>}
    \/ (token[1] = "\\" /\ token[2] \in {"*", "+", "?"})
is_open_group(token) == token = <<"(">>
is_closing_group(token) == token = <<")">>

\* the lookahead test that inserts '.' between curr and next_tok
ConcatHere(curr, next_tok) ==
    /\ is_operand(curr) \/ is_closing_group(curr) \/ is_prefix(curr)
    /\ is_operand(next_tok) \/ is_open_group(next_tok)
    /\ curr # <<"|">>
    /\ next_tok \notin {<<"|">>, <<"*">>, <<"+">>, <<"?">>, <<")">>}

\* "for j in range(len(tokens))": what iteration j (1-based) appends to output
ConcatOutput(tokens, j) ==
    tokens[j] \o (IF j + 1 <= Len(tokens) /\ ConcatHere(tokens[j], tokens[j + 1]) THEN <<".">> ELSE <<>>)

\* add_concatenation_symbols(pattern): ''.join(output)
add_concatenation_symbols(pattern) ==
    LET tokens == ReadTokens(pattern)
    IN  ConcatRange([j \in 1..Len(tokens) |-> ConcatOutput(tokens, j)], 1, Len(tokens))

\* tokenize(pattern): one iteration of "while i < len(pattern)"
TokenizeStep(pattern, s) ==
    LET c == pattern[s.i + 1]
    IN  IF c = "\\"
        THEN IF s.i + 1 < Len(pattern)
             THEN [i |-> s.i + 2, tokens |-> Append(s.tokens, Escape(pattern[s.i + 2]))]
             ELSE [i |-> s.i + 1, tokens |-> Append(s.tokens, "\\")]
        ELSE IF c \in {"(", ")", "|", "*", "+", "?", "."} \/ ~IsSpace(c)
             THEN [i |-> s.i + 1, tokens |-> Append(s.tokens, c)]
             ELSE [i |-> s.i + 1, tokens |-> s.tokens]

tokenize(pattern) ==
    LET Step(s) == TokenizeStep(pattern, s)
    IN  Iterate(Step, [i |-> 0, tokens |-> <<>>], 0, Len(pattern)).tokens

is_operator(c) == c \in {"|", ".", "*", "+", "?"}

precedence(op) ==
    IF op \in {"*", "+", "?"} THEN 3
    ELSE IF op = "." THEN 2
    ELSE IF op = "|" THEN 1
    ELSE 0

\* "while stack and stack[-1] != '(': output.append(stack.pop())" (top of stack last)
RECURSIVE PopToParen(_)
PopToParen(s) ==
    IF s.stack # <<>> /\ s.stack[Len(s.stack)] # "("
    THEN PopToParen([s EXCEPT !.output = Append(@, s.stack[Len(s.stack)]),
                              !.stack  = SubSeq(@, 1, Len(@) - 1)])
    ELSE s

\* the while loop of the operator branch
RECURSIVE PopOperators(_, _)
PopOperators(s, token) ==
    IF /\ s.stack # <<>>
       /\ s.stack[Len(s.stack)] # "("
       /\ \/ precedence(token) < precedence(s.stack[Len(s.stack)])
          \/ (precedence(token) = precedence(s.stack[Len(s.stack)]) /\ token # "*")
    THEN PopOperators([s EXCEPT !.output = Append(@, s.stack[Len(s.stack)]),
                                !.stack  = SubSeq(@, 1, Len(@) - 1)], token)
    ELSE s

\* "for token in self.tokenize(pattern)": one iteration; stack.pop() on an empty stack
\* raises IndexError, which ends the loop
ShuntingYard(tokens, s) ==
    LET token == tokens[s.i + 1]
        next  == [s EXCEPT !.i = @ + 1]
    IN  IF s.err # "" THEN next
        ELSE IF token = "(" THEN [next EXCEPT !.stack = Append(@, token)]
        ELSE IF token = ")"
             THEN LET p == PopToParen(next)
                  IN  IF p.stack = <<>> THEN [next EXCEPT !.err = "IndexError"]
                      ELSE [p EXCEPT !.stack = SubSeq(@, 1, Len(@) - 1)]
        ELSE IF is_operator(token)
             THEN [PopOperators(next, token) EXCEPT !.stack = Append(@, token)]
        ELSE [next EXCEPT !.output = Append(@, token)]

\* to_postfix(pattern)
to_postfix(pattern) ==
    LET tokens == tokenize(add_concatenation_symbols(expand_character_classes(pattern)))
        Step(s) == ShuntingYard(tokens, s)
        r == Iterate(Step, [i |-> 0, err |-> "", output |-> <<>>, stack |-> <<>>], 0, Len(tokens))
    IN  IF r.err # "" THEN Raised(r.err)
        ELSE Returned(r.output \o Reverse(r.stack) \o <<"#", ".">>)

-----------------------------------------------------------------------------
(* Syntax tree and direct DFA construction: syntax_tree.py, afd.py *)

Leaf(symbol, position) == [kind |-> "leaf", symbol |-> symbol, position |-> position]
UnaryNode(symbol, child) == [kind |-> "unary", symbol |-> symbol, child |-> child]
BinaryNode(symbol, left, right) == [kind |-> "binary", symbol |-> symbol, left |-> left, right |-> right]

\* the test of the first branch of build_syntax_tree: the token becomes a leaf
IsLeafToken(token) == token = "#" \/ IsEscape(token) \/ IsAlnum(token)

\* build_syntax_tree: one iteration of "for token in self.postfix_tokens"; s holds
\* self.stack, self.leaf_positions and position_counter; a ValueError ends the loop
BuildTree(tokens, s) ==
    LET token == tokens[s.i + 1]
        n     == Len(s.stack)
        next  == [s EXCEPT !.i = @ + 1]
    IN  IF s.err # "" THEN next
        ELSE IF IsLeafToken(token)
             THEN [next EXCEPT !.stack = Append(@, Leaf(token, s.position_counter)),
                               !.leaf_positions = Append(@, token),
                               !.position_counter = @ + 1]
        ELSE IF token \in {"*", "+", "?"}
             THEN IF n < 1 THEN [next EXCEPT !.err = "ValueError"]
                  ELSE [next EXCEPT !.stack = Append(SubSeq(@, 1, n - 1), UnaryNode(token, @[n]))]
        ELSE IF token \in {"|", "."}
             THEN IF n < 2 THEN [next EXCEPT !.err = "ValueError"]
                  ELSE [next EXCEPT !.stack = Append(SubSeq(@, 1, n - 2),
                                                     BinaryNode(token, @[n - 1], @[n]))]
        ELSE [next EXCEPT !.err = "ValueError"]

\* build_syntax_tree(): the root and leaf_positions, or the ValueError
build_syntax_tree(postfix_tokens) ==
    LET Step(s) == BuildTree(postfix_tokens, s)
        r == Iterate(Step, [i |-> 0, err |-> "", stack |-> <<>>, leaf_positions |-> <<>>,
                            position_counter |-> 1], 0, Len(postfix_tokens))
    IN  IF r.err # "" THEN Raised(r.err)
        ELSE IF Len(r.stack) # 1 THEN Raised("ValueError")
        ELSE Returned([root |-> r.stack[1], leaf_positions |-> r.leaf_positions])

\* node.nullable, node.firstpos, node.lastpos as traverse computes them
RECURSIVE node_nullable(_)
node_nullable(node) ==
    CASE node.kind = "leaf"  -> FALSE
      [] node.kind = "unary" -> IF node.symbol = "+" THEN node_nullable(node.child) ELSE TRUE
      [] OTHER ->
            IF node.symbol = "."
            THEN node_nullable(node.left) /\ node_nullable(node.right)
            ELSE node_nullable(node.left) \/ node_nullable(node.right)

RECURSIVE firstpos(_)
firstpos(node) ==
    CASE node.kind = "leaf"  -> {node.position}
      [] node.kind = "unary" -> firstpos(node.child)
      [] OTHER ->
            IF node.symbol = "." /\ ~node_nullable(node.left)
            THEN firstpos(node.left)
            ELSE firstpos(node.left) \cup firstpos(node.right)

RECURSIVE lastpos(_)
lastpos(node) ==
    CASE node.kind = "leaf"  -> {node.position}
      [] node.kind = "unary" -> lastpos(node.child)
      [] OTHER ->
            IF node.symbol = "." /\ ~node_nullable(node.right)
            THEN lastpos(node.right)
            ELSE lastpos(node.left) \cup lastpos(node.right)

\* the pairs <<p, q>> for which traverse does followpos[p].add(q)
RECURSIVE FollowAdds(_)
FollowAdds(node) ==
    CASE node.kind = "leaf"  -> {}
      [] node.kind = "unary" ->
            FollowAdds(node.child) \cup
                (IF node.symbol \in {"*", "+"} THEN lastpos(node) \X firstpos(node) ELSE {})
      [] OTHER ->
            FollowAdds(node.left) \cup FollowAdds(node.right) \cup
                (IF node.symbol = "." THEN lastpos(node.left) \X firstpos(node.right) ELSE {})

\* compute_nullable_first_last_follow(root): followpos, a set for every leaf position
compute_nullable_first_last_follow(root, leaf_positions) ==
    LET followpos(adds) ==
            [p \in 1..Len(leaf_positions) |-> {pq[2] : pq \in {a \in adds : a[1] = p}}]
    IN  CHOOSE f \in {followpos(adds) : adds \in {FollowAdds(root)}} : TRUE

\* build_afd, one state: symbol_to_positions of the state current
SymbolToPositions(current, followpos, leaf_positions) ==
    LET symbols == {leaf_positions[pos] : pos \in {p \in current : followpos[p] # {}}} \ {"#"}
    IN  [symbol \in symbols |->
            UNION {followpos[pos] : pos \in {p \in current : leaf_positions[p] = symbol}}]

\* build_afd: "while unmarked_states"; d holds unmarked_states, dstates and transitions
RECURSIVE DStatesLoop(_, _, _)
DStatesLoop(d, followpos, leaf_positions) ==
    IF d.unmarked_states = <<>> THEN d
    ELSE LET current == Head(d.unmarked_states)
             row     == SymbolToPositions(current, followpos, leaf_positions)
             fresh   == SetToSeq({row[symbol] : symbol \in DOMAIN row} \ Range(d.dstates))
         IN  DStatesLoop([unmarked_states |-> Tail(d.unmarked_states) \o fresh,
                          dstates         |-> d.dstates \o fresh,
                          transitions     |-> (current :> row) @@ d.transitions],
                         followpos, leaf_positions)

\* build_afd(root, followpos, leaf_positions); dstates keeps the order of discovery
build_afd(root, followpos, leaf_positions) ==
    LET hash_position == Min({p \in 1..Len(leaf_positions) : leaf_positions[p] = "#"})
        start_state   == firstpos(root)
        d == DStatesLoop([unmarked_states |-> <<start_state>>, dstates |-> <<start_state>>,
                          transitions |-> <<>>], followpos, leaf_positions)
    IN  [start_state   |-> start_state,
         accept_states |-> {D \in Range(d.dstates) : hash_position \in D},
         transitions   |-> d.transitions,
         dstates       |-> d.dstates]

\* AFD.export_to_txt: the states numbered from 0 in the order they were found; the
\* value is the file, as load_afd_from_file reads it back
export_to_txt(dfa) ==
    LET state_id_map == [D \in Range(dfa.dstates) |->
                            (CHOOSE k \in 1..Len(dfa.dstates) : dfa.dstates[k] = D) - 1]
        lines_of(D) ==
            SetToSeq({<<state_id_map[D], symbol, state_id_map[dfa.transitions[D][symbol]]>> :
                        symbol \in DOMAIN dfa.transitions[D]})
        transition_lines ==
            ConcatRange([k \in 1..Len(dfa.dstates) |-> lines_of(dfa.dstates[k])], 1, Len(dfa.dstates))
    IN  AfdFile(Len(dfa.dstates),
                state_id_map[dfa.start_state],
                {state_id_map[D] : D \in dfa.accept_states},
                {l[2] : l \in Range(transition_lines)},
                transition_lines)

-----------------------------------------------------------------------------
(* Inputs *)

\* longest token file drawn over a grammar's terminals
MaxTokens == 3
\* most alternatives on a line of a generated grammar file
MaxAlts == 2

\* E ::= E + T | T ; T ::= T * F | F ; F ::= ( E ) | id
ExprGrammarFile ==
    << Line("E", << <<"E", "+", "T">>, <<"T">> >>),
       Line("T", << <<"T", "*", "F">>, <<"F">> >>),
       Line("F", << <<"(", "E", ")">>, <<"id">> >>) >>

\* S ::= B t ; B ::= b | ε
EpsGrammarFile ==
    << Line("S", << <<"B", "t">> >>),
       Line("B", << <<"b">>, <<Eps>> >>) >>

\* S ::= t B ; B ::= b |          (an empty alternative)
EmptyAltGrammarFile ==
    << Line("S", << <<"t", "B">> >>),
       Line("B", << <<"b">>, <<>> >>) >>

\* S ::= a S | a
RightRecGrammarFile == << Line("S", << <<"a", "S">>, <<"a">> >>) >>

\* S ::= S S | a                  (ambiguous)
AmbiguousGrammarFile == << Line("S", << <<"S", "S">>, <<"a">> >>) >>

\* S ::= A b | a c ; A ::= a      (SLR(1): FOLLOW(A) decides between reduce and shift)
PrefixGrammarFile ==
    << Line("S", << <<"A", "b">>, <<"a", "c">> >>),
       Line("A", << <<"a">> >>) >>

\* S ::= S | a
UnitCycleGrammarFile == << Line("S", << <<"S">>, <<"a">> >>) >>

\* S ::= S' a | b          (S' is a terminal of the file)
PrimedTerminalGrammarFile == << Line("S", << <<"S'", "a">>, <<"b">> >>) >>

\* S ::= A ; S' ::= a ; A ::= S' b          (S' is a non-terminal of the file)
PrimedNonTerminalGrammarFile ==
    << Line("S", << <<"A">> >>), Line("S'", << <<"a">> >>), Line("A", << <<"S'", "b">> >>) >>

PrimedGrammarFiles == {PrimedTerminalGrammarFile, PrimedNonTerminalGrammarFile}

GrammarFiles ==
    {ExprGrammarFile, EpsGrammarFile, EmptyAltGrammarFile, RightRecGrammarFile,
     AmbiguousGrammarFile, PrefixGrammarFile, UnitCycleGrammarFile}

\* alternatives the generated grammar files draw from, in the order they are written
RhsPool ==
    << <<"a">>, <<Eps>>, <<"A", "b">>, <<"A", "S">>, <<"S", "a">>, <<"b", "A">>, <<"A", "A", "a">>,
       <<"A", "A">> >>

\* the alternatives with pool indices in I, in pool order
RECURSIVE PoolAlts(_, _)
PoolAlts(I, k) ==
    IF k > Len(RhsPool) THEN <<>>
    ELSE (IF k \in I THEN <<RhsPool[k]>> ELSE <<>>) \o PoolAlts(I, k + 1)

AltChoices == {I \in SUBSET (1..Len(RhsPool)) : Cardinality(I) \in 1..MaxAlts}

\* two-line grammar files "S ::= ... ; A ::= ..."
GeneratedGrammarFiles ==
    {<< Line("S", PoolAlts(I, 1)), Line("A", PoolAlts(J, 1)) >> : I \in AltChoices, J \in AltChoices}

\* the token stream of scenario S4, as the lexer writes it: a1+b*(c)
S4TokenFile ==
    << Token("a1", "id"), Token("+", "plus"), Token("b", "id"), Token("*", "times"),
       Token("(", "lpar"), Token("c", "id"), Token(")", "rpar") >>

\* the token stream of scenario S5: a1+
S5TokenFile == << Token("a1", "id"), Token("+", "plus") >>

\* a repeated identifier and a reserved word
RepeatTokenFile == << Token("x", "id"), Token("+", "plus"), Token("x", "id"), Token("*", "times"), Token("for", "id") >>

ScenarioTokenFiles == {S4TokenFile, S5TokenFile, RepeatTokenFile}

\* token files whose lexemes spell their kinds, over the grammar's terminals and erro!
TokenFiles(g) ==
    {[k \in 1..Len(w) |-> Token(w[k], w[k])] : w \in SeqsUpTo(g.terminals \cup {"erro!"}, MaxTokens)}
        \cup ScenarioTokenFiles

\* most items in an item set given to closure and goto
MaxItems == 2

\* the items of a grammar: every production with the dot at every place
AllItems(g) ==
    UNION {{Item(g.productions[k].lhs, g.productions[k].rhs, dot) : dot \in 0..Len(g.productions[k].rhs)} :
                k \in 1..Len(g.productions)}

\* the subsets of S with at most n elements
RECURSIVE SubsetsUpTo(_, _)
SubsetsUpTo(S, n) ==
    IF n = 0 THEN {{}}
    ELSE LET smaller == SubsetsUpTo(S, n - 1)
         IN  smaller \cup {I \cup {x} : I \in smaller, x \in S}

ItemSets(g) == SubsetsUpTo(AllItems(g), MaxItems)

\* most patterns in a regex file
MaxPatterns == 2
\* longest text given to the lexer
MaxText == 3

Pattern(name, file) == [name |-> name, file |-> file]

\* id: [ab]([ab]|1)*
IdPattern ==
    Pattern("id", AfdFile(2, 0, {1}, {"a", "b", "1"},
        << <<0, "a", 1>>, <<0, "b", 1>>, <<1, "a", 1>>, <<1, "b", 1>>, <<1, "1", 1>> >>))

\* kw: ab
KwPattern == Pattern("kw", AfdFile(3, 0, {2}, {"a", "b"}, << <<0, "a", 1>>, <<1, "b", 2>> >>))

\* num: 1+
NumPattern == Pattern("num", AfdFile(2, 0, {1}, {"1"}, << <<0, "1", 1>>, <<1, "1", 1>> >>))

\* long: a(a|b1)*     (a prefix ending in b is not accepted: the scanner has to fall back)
LongPattern ==
    Pattern("long", AfdFile(3, 0, {1}, {"a", "b", "1"},
        << <<0, "a", 1>>, <<1, "a", 1>>, <<1, "b", 2>>, <<2, "1", 1>> >>))

\* star: a*           (the start state is accepting)
StarPattern == Pattern("star", AfdFile(1, 0, {0}, {"a"}, << <<0, "a", 0>> >>))

PatternPool == {IdPattern, KwPattern, NumPattern, LongPattern, StarPattern}

\* regex files: lists of distinct patterns, in file order
RegexFiles ==
    {ps \in SeqsUpTo(PatternPool, MaxPatterns) :
        Len(ps) >= 1 /\ \A i, j \in 1..Len(ps) : i # j => ps[i] # ps[j]}

\* the text of scenario S1: a1+b*(c)
S1Text == <<"a", "1", "+", "b", "*", "(", "c", ")">>

TextAlphabet == {"a", "b", "1"}
\* one-character texts of operators
OperatorTexts == {<<c>> : c \in {"+", "*", "(", ")"}}

Texts == SeqsUpTo(TextAlphabet, MaxText) \cup {S1Text} \cup OperatorTexts

\* id: [a-zA-Z]([a-zA-Z]|[0-9])*
IdRegex ==
    RegexLine("id", <<"[", "a", "-", "z", "A", "-", "Z", "]", "(", "[", "a", "-", "z", "A", "-", "Z", "]",
                      "|", "[", "0", "-", "9", "]", ")", "*">>)

\* the regex file of scenario S1: id, plus: +, times: *, lpar: (, rpar: )
S1RegexFile ==
    << IdRegex, RegexLine("plus", <<"+">>), RegexLine("times", <<"*">>),
       RegexLine("lpar", <<"(">>), RegexLine("rpar", <<")">>) >>

\* the same file with the operators escaped: plus: \+, times: \*, lpar: \(, rpar: \)
S1EscapedRegexFile ==
    << IdRegex, RegexLine("plus", <<"\\", "+">>), RegexLine("times", <<"\\", "*">>),
       RegexLine("lpar", <<"\\", "(">>), RegexLine("rpar", <<"\\", ")">>) >>

\* small regex files: kw: ab ; id: (a|b)(a|b|1)*   /   num: 1+ ; opt: a?b   /
\* empty: ε ; id: a   /   hash: a|#   /   kw: a b   /   rpar: )
SmallRegexFiles ==
    { << RegexLine("kw", <<"a", "b">>),
         RegexLine("id", <<"(", "a", "|", "b", ")", "(", "a", "|", "b", "|", "1", ")", "*">>) >>,
      << RegexLine("num", <<"1", "+">>), RegexLine("opt", <<"a", "?", "b">>) >>,
      << RegexLine("empty", <<Eps>>), RegexLine("id", <<"a">>) >>,
      << RegexLine("hash", <<"a", "|", "#">>) >>,
      << RegexLine("kw", <<"a", " ", "b">>) >>,
      << RegexLine("rpar", <<")">>) >> }

RegexDefinitionFiles == {S1RegexFile, S1EscapedRegexFile, <<IdRegex>>} \cup SmallRegexFiles

-----------------------------------------------------------------------------
(* main.py, Part II and III: one action per stage *)

\* the lexer half of main() before it runs
LexIdle(patterns) ==
    [pc |-> "load", regexes |-> <<>>, regex |-> <<>>, error |-> "",
     patterns |-> patterns, union_afn |-> <<>>, dfa |-> <<>>, token_map |-> <<>>,
     text |-> <<>>, i |-> 0, state |-> None, last_accepting |-> None,
     last_accepting_index |-> 0, current_index |-> 0, tokens |-> <<>>]

LexOff == [LexIdle(<<>>) EXCEPT !.pc = "off"]

ParserState(p, g) ==
    /\ pc = p
    /\ grammar = g
    /\ first = <<>>
    /\ follow = <<>>
    /\ states = <<>>
    /\ transitions = <<>>
    /\ action_table = <<>>
    /\ goto_table = <<>>
    /\ tbl = [idx |-> 0, todo |-> {}, overwritten |-> FALSE]
    /\ token_list = <<>>
    /\ stack = <<>>
    /\ pointer = 0
    /\ symbol_table = NewSymbolTable
    /\ result = NoOutcome

InitWith(files) ==
    /\ \E file \in files : ParserState("first", LoadGrammar(file))
    /\ lex = LexOff

Init == InitWith(GrammarFiles)

\* first = compute_first(grammar)
ComputeFirst ==
    /\ pc = "first"
    /\ first' = compute_first(grammar)
    /\ pc' = "follow"
    /\ UNCHANGED <<grammar, follow, states, transitions, action_table, goto_table, tbl,
                   token_list, stack, pointer, symbol_table, result, lex>>

\* follow = compute_follow(grammar, first)
ComputeFollow ==
    /\ pc = "follow"
    /\ LET r == compute_follow(grammar, first)
       IN  /\ follow' = r.follow
           /\ first' = r.first
    /\ pc' = "canonical"
    /\ UNCHANGED <<grammar, states, transitions, action_table, goto_table, tbl,
                   token_list, stack, pointer, symbol_table, result, lex>>

\* states, transitions = canonical_collection(grammar)
CanonicalCollection ==
    /\ pc = "canonical"
    /\ LET c == canonical_collection(grammar)
       IN  /\ grammar' = c.grammar
           /\ states' = c.states
           /\ transitions' = c.transitions
           /\ tbl' = [idx |-> 0, todo |-> c.states[1], overwritten |-> FALSE]
    /\ pc' = "table"
    /\ UNCHANGED <<first, follow, action_table, goto_table,
                   token_list, stack, pointer, symbol_table, result, lex>>

\* build_slr_table: one iteration of "for item in state" (a set: any order), moving
\* on to the next state, or returning, after the last item
BuildTableItem ==
    /\ pc = "table"
    /\ \E item \in tbl.todo :
        LET acts  == ItemActions(grammar, states, transitions, follow, tbl.idx, item)
            gotos == ItemGotos(grammar, states, transitions, tbl.idx, item)
            rest  == tbl.todo \ {item}
            over  == tbl.overwritten \/ Overwrites(action_table, acts) \/ Overwrites(goto_table, gotos)
        IN  /\ action_table' = acts @@ action_table
            /\ goto_table' = gotos @@ goto_table
            /\ IF rest # {}
               THEN /\ tbl' = [idx |-> tbl.idx, todo |-> rest, overwritten |-> over]
                    /\ pc' = "table"
               ELSE IF tbl.idx + 1 < Len(states)
               THEN /\ tbl' = [idx |-> tbl.idx + 1, todo |-> states[tbl.idx + 2], overwritten |-> over]
                    /\ pc' = "table"
               ELSE /\ tbl' = [idx |-> tbl.idx, todo |-> {}, overwritten |-> over]
                    /\ pc' = "parse"
    /\ UNCHANGED <<grammar, first, follow, states, transitions,
                   token_list, stack, pointer, symbol_table, result, lex>>

\* slr_parse_from_file: a token file with an erro! token is rejected before the loop
LexicalReject ==
    /\ pc = "parse"
    /\ \E file \in TokenFiles(grammar) :
        /\ ErrorTokens(load_tokens_from_file(file)) # {}
        /\ token_list' = load_tokens_from_file(file)
    /\ result' = Outcome("False", "lexical")
    /\ pc' = "done"
    /\ UNCHANGED <<grammar, first, follow, states, transitions, action_table, goto_table, tbl,
                   stack, pointer, symbol_table, lex>>

\* slr_parse_from_file up to "while True"
ParseStart ==
    /\ pc = "parse"
    /\ \E file \in TokenFiles(grammar) :
        /\ ErrorTokens(load_tokens_from_file(file)) = {}
        /\ token_list' = load_tokens_from_file(file)
    /\ stack' = <<StateEntry(0)>>
    /\ pointer' = 0
    /\ symbol_table' = NewSymbolTable
    /\ pc' = "driver"
    /\ UNCHANGED <<grammar, first, follow, states, transitions, action_table, goto_table, tbl,
                   result, lex>>

\* "if action is None"
SyntaxReject ==
    /\ pc = "driver"
    /\ CurKey \notin DOMAIN action_table
    /\ result' = Outcome("False", "syntax")
    /\ pc' = "done"
    /\ UNCHANGED <<grammar, first, follow, states, transitions, action_table, goto_table, tbl,
                   token_list, stack, pointer, symbol_table, lex>>

\* "if action[0] == 'shift'"
Shift ==
    /\ pc = "driver"
    /\ CurKey \in DOMAIN action_table
    /\ CurAction.kind = "shift"
    /\ symbol_table' = add_or_get(symbol_table, CurToken.lexeme)
    /\ stack' = stack \o <<SymbolEntry(CurToken.kind), StateEntry(CurAction.state)>>
    /\ pointer' = pointer + 1
    /\ UNCHANGED <<pc, grammar, first, follow, states, transitions, action_table, goto_table, tbl,
                   token_list, result, lex>>

\* "elif action[0] == 'reduce'", GOTO defined
Reduce ==
    /\ pc = "driver"
    /\ CurKey \in DOMAIN action_table
    /\ CurAction.kind = "reduce"
    /\ LET popped == PopStack(stack, CurAction.rhs)
       IN  /\ popped # <<>>
           /\ <<popped[Len(popped)].st, CurAction.lhs>> \in DOMAIN goto_table
           /\ stack' = popped \o <<SymbolEntry(CurAction.lhs),
                                   StateEntry(goto_table[<<popped[Len(popped)].st, CurAction.lhs>>])>>
    /\ UNCHANGED <<pc, grammar, first, follow, states, transitions, action_table, goto_table, tbl,
                   token_list, pointer, symbol_table, result, lex>>

\* "elif action[0] == 'reduce'", "if goto_state is None"
GotoError ==
    /\ pc = "driver"
    /\ CurKey \in DOMAIN action_table
    /\ CurAction.kind = "reduce"
    /\ LET popped == PopStack(stack, CurAction.rhs)
       IN  /\ popped # <<>>
           /\ <<popped[Len(popped)].st, CurAction.lhs>> \notin DOMAIN goto_table
           /\ stack' = Append(popped, SymbolEntry(CurAction.lhs))
    /\ result' = Outcome("False", "goto")
    /\ pc' = "done"
    /\ UNCHANGED <<grammar, first, follow, states, transitions, action_table, goto_table, tbl,
                   token_list, pointer, symbol_table, lex>>

\* "elif action[0] == 'reduce'": the slice left the stack empty and "state = stack[-1]" raises
ReduceIndexError ==
    /\ pc = "driver"
    /\ CurKey \in DOMAIN action_table
    /\ CurAction.kind = "reduce"
    /\ PopStack(stack, CurAction.rhs) = <<>>
    /\ stack' = <<>>
    /\ result' = Outcome("raise", "IndexError")
    /\ pc' = "done"
    /\ UNCHANGED <<grammar, first, follow, states, transitions, action_table, goto_table, tbl,
                   token_list, pointer, symbol_table, lex>>

\* "elif action[0] == 'accept'"
Accept ==
    /\ pc = "driver"
    /\ CurKey \in DOMAIN action_table
    /\ CurAction.kind = "accept"
    /\ result' = Outcome("True", "accept")
    /\ pc' = "done"
    /\ UNCHANGED <<grammar, first, follow, states, transitions, action_table, goto_table, tbl,
                   token_list, stack, pointer, symbol_table, lex>>

Next ==
    \/ ComputeFirst
    \/ ComputeFollow
    \/ CanonicalCollection
    \/ BuildTableItem
    \/ LexicalReject
    \/ ParseStart
    \/ SyntaxReject
    \/ Shift
    \/ Reduce
    \/ GotoError
    \/ ReduceIndexError
    \/ Accept

Spec == Init /\ [][Next]_vars

\* one iteration of "while True" in slr_parse_from_file
DriverStep == SyntaxReject \/ Shift \/ Reduce \/ GotoError \/ ReduceIndexError \/ Accept

\* the loop is sequential: once entered, it runs its next iteration whenever it has one
SpecRun == Spec /\ WF_vars(DriverStep)

\* compute_first and compute_follow alone, over the generated grammar files as well
InitFF == InitWith(GrammarFiles \cup GeneratedGrammarFiles)

NextFF == ComputeFirst \/ ComputeFollow

SpecFF == InitFF /\ [][NextFF]_vars

\* lr0_items.py alone: canonical_collection over the generated grammar files as well,
\* closure and goto on item sets that need not be states
InitLR ==
    /\ \/ \E file \in GrammarFiles \cup GeneratedGrammarFiles \cup PrimedGrammarFiles :
            ParserState("canonical", LoadGrammar(file))
       \/ \E file \in GrammarFiles : ParserState("closure", Augment(LoadGrammar(file)))
    /\ lex = LexOff

\* closure(items, grammar) on an item set: states holds the argument and the value
ApplyClosure ==
    /\ pc = "closure"
    /\ \E items \in ItemSets(grammar) : states' = <<items, closure(items, grammar)>>
    /\ pc' = "goto"
    /\ UNCHANGED <<grammar, first, follow, transitions, action_table, goto_table, tbl,
                   token_list, stack, pointer, symbol_table, result, lex>>

\* goto(items, symbol, grammar) on the same item set: the value is appended to states,
\* and transitions holds the symbol
ApplyGoto ==
    /\ pc = "goto"
    /\ \E symbol \in grammar.terminals \cup grammar.non_terminals :
        /\ states' = Append(states, goto(states[1], symbol, grammar))
        /\ transitions' = <<symbol>>
    /\ pc' = "closed"
    /\ UNCHANGED <<grammar, first, follow, action_table, goto_table, tbl,
                   token_list, stack, pointer, symbol_table, result, lex>>

NextLR == CanonicalCollection \/ ApplyClosure \/ ApplyGoto

SpecLR == InitLR /\ [][NextLR]_vars

-----------------------------------------------------------------------------
(* main.py, Part I, and simulate_dfa_on_text *)

parserVars == <<pc, grammar, first, follow, states, transitions, action_table,
                goto_table, tbl, token_list, stack, pointer, symbol_table, result>>

InitLex ==
    /\ ParserState("off", LoadGrammar(RightRecGrammarFile))
    /\ \E patterns \in RegexFiles : lex = LexIdle(patterns)

\* afns.append(load_afd_from_file(...)) for every pattern; union_afn = reduce(union, afns)
LoadAndUnion ==
    /\ lex.pc = "load"
    /\ LET afns == [k \in 1..Len(lex.patterns) |->
                        load_afd_from_file(lex.patterns[k].file, lex.patterns[k].name)]
       IN  lex' = [lex EXCEPT !.pc = "to_afd", !.union_afn = UnionFold(afns[1], afns, 2)]
    /\ UNCHANGED parserVars

\* afd, token_map = union_afn.to_afd()
ToAfd ==
    /\ lex.pc = "to_afd"
    /\ LET afd == to_afd(lex.union_afn)
       IN  lex' = [lex EXCEPT !.pc = "lexer", !.dfa = afd, !.token_map = afd.token_map]
    /\ UNCHANGED parserVars

\* simulate_dfa_on_text(dfa, token_map, text) is called: i = 0, tokens = []
ScanText ==
    /\ lex.pc = "lexer"
    /\ \E text \in Texts :
        lex' = [lex EXCEPT !.pc = "outer", !.text = text, !.i = 0, !.tokens = <<>>]
    /\ UNCHANGED parserVars

\* run_lexer on a file of one non-empty line: tokens.append(simulate_dfa_on_line(...))
RunLexer ==
    /\ lex.pc = "lexer"
    /\ \E line \in Texts \ {<<>>} :
        lex' = [lex EXCEPT !.pc = "line", !.text = line,
                           !.tokens = <<simulate_dfa_on_line(lex.dfa, lex.token_map, line)>>]
    /\ UNCHANGED parserVars

\* "while i < len(text)": the assignments before the inner loop
OuterIteration ==
    /\ lex.pc = "outer"
    /\ lex.i < Len(lex.text)
    /\ lex' = [lex EXCEPT !.pc = "inner", !.state = lex.dfa.start_state,
                          !.last_accepting = None, !.last_accepting_index = lex.i,
                          !.current_index = lex.i]
    /\ UNCHANGED parserVars

\* one iteration of the inner loop that does not break
InnerIteration ==
    /\ lex.pc = "inner"
    /\ InnerLoopRuns(lex.dfa, lex.state, lex.text, lex.current_index)
    /\ LET next_state == lex.dfa.transitions[lex.state][lex.text[lex.current_index + 1]]
       IN  lex' = [lex EXCEPT
                !.state = next_state,
                !.last_accepting = IF next_state \in lex.dfa.accept_states THEN next_state ELSE @,
                !.last_accepting_index =
                    IF next_state \in lex.dfa.accept_states THEN lex.current_index + 1 ELSE @,
                !.current_index = @ + 1]
    /\ UNCHANGED parserVars

\* after the inner loop, "if last_accepting is not None"
EmitToken ==
    /\ lex.pc = "inner"
    /\ ~InnerLoopRuns(lex.dfa, lex.state, lex.text, lex.current_index)
    /\ lex.last_accepting # None
    /\ lex' = [lex EXCEPT
            !.pc = "outer",
            !.tokens = Append(@, Token(SubSeq(lex.text, lex.i + 1, lex.last_accepting_index),
                                       ResolveToken(lex.last_accepting, lex.token_map))),
            !.i = lex.last_accepting_index]
    /\ UNCHANGED parserVars

\* after the inner loop, the else branch: tokens.append((text[i], "erro!")); i += 1
EmitError ==
    /\ lex.pc = "inner"
    /\ ~InnerLoopRuns(lex.dfa, lex.state, lex.text, lex.current_index)
    /\ lex.last_accepting = None
    /\ lex' = [lex EXCEPT
            !.pc = "outer",
            !.tokens = Append(@, ErrorToken(lex.text, lex.i)),
            !.i = @ + 1]
    /\ UNCHANGED parserVars

\* "return tokens"
ReturnTokens ==
    /\ lex.pc = "outer"
    /\ lex.i >= Len(lex.text)
    /\ lex' = [lex EXCEPT !.pc = "done"]
    /\ UNCHANGED parserVars

\* main.py from a regex file: the regular expressions read, nothing compiled yet
InitRegex ==
    /\ ParserState("off", LoadGrammar(RightRecGrammarFile))
    /\ \E file \in RegexDefinitionFiles :
        lex = [LexIdle(<<>>) EXCEPT !.pc = "compile", !.regexes = file]

\* "for i, regex in enumerate(regular_expressions)": postfix = regex.to_postfix(regex.pattern);
\* an exception ends main
ToPostfix ==
    /\ lex.pc = "compile"
    /\ \E r \in {to_postfix(lex.regexes[Len(lex.patterns) + 1].pattern)} :
        lex' = IF r.err # "" THEN [lex EXCEPT !.pc = "raise", !.error = r.err]
               ELSE [lex EXCEPT !.pc = "syntax_tree", !.regex = [postfix |-> r.value]]
    /\ UNCHANGED parserVars

\* tree = st.SyntaxTree(postfix); root = tree.build_syntax_tree()
BuildSyntaxTree ==
    /\ lex.pc = "syntax_tree"
    /\ \E r \in {build_syntax_tree(lex.regex.postfix)} :
        lex' = IF r.err # "" THEN [lex EXCEPT !.pc = "raise", !.error = r.err]
               ELSE [lex EXCEPT !.pc = "followpos", !.regex = r.value]
    /\ UNCHANGED parserVars

\* followpos = tree.compute_nullable_first_last_follow(root)
ComputeFollowpos ==
    /\ lex.pc = "followpos"
    /\ lex' = [lex EXCEPT !.pc = "build_afd",
                          !.regex = [root |-> @.root, leaf_positions |-> @.leaf_positions,
                                     followpos |-> compute_nullable_first_last_follow(
                                                        @.root, @.leaf_positions)]]
    /\ UNCHANGED parserVars

\* afd = st.build_afd(root, followpos, tree.leaf_positions)
BuildAfd ==
    /\ lex.pc = "build_afd"
    /\ lex' = [lex EXCEPT !.pc = "export",
                          !.regex = [afd |-> build_afd(@.root, @.followpos, @.leaf_positions),
                                     leaf_positions |-> @.leaf_positions]]
    /\ UNCHANGED parserVars

\* afd.export_to_txt("./output/afd_output_i.txt"), the end of one iteration
ExportToTxt ==
    /\ lex.pc = "export"
    /\ LET k == Len(lex.patterns) + 1
       IN  lex' = [lex EXCEPT !.patterns = Append(@, Pattern(lex.regexes[k].name,
                                                             export_to_txt(lex.regex.afd))),
                              !.regex = <<>>,
                              !.pc = IF k = Len(lex.regexes) THEN "load" ELSE "compile"]
    /\ UNCHANGED parserVars

NextLex ==
    \/ LoadAndUnion
    \/ ToAfd
    \/ ScanText
    \/ RunLexer
    \/ OuterIteration
    \/ InnerIteration
    \/ EmitToken
    \/ EmitError
    \/ ReturnTokens

\* the steps of simulate_dfa_on_text: the function keeps running until it returns
ScanStep == OuterIteration \/ InnerIteration \/ EmitToken \/ EmitError \/ ReturnTokens

SpecLex == InitLex /\ [][NextLex]_vars

SpecLexRun == SpecLex /\ WF_vars(ScanStep)

\* the lexer from the regular expressions on
NextRegex ==
    \/ ToPostfix
    \/ BuildSyntaxTree
    \/ ComputeFollowpos
    \/ BuildAfd
    \/ ExportToTxt
    \/ NextLex

SpecRegex == InitRegex /\ [][NextRegex]_vars

-----------------------------------------------------------------------------
(* Reference notions the claims are stated against *)

\* symbols deriving the empty string: least set holding the marker and every lhs
\* of a production whose rhs symbols are all in the set
RECURSIVE NullableFrom(_, _)
NullableFrom(N, g) ==
    LET N1 == N \cup {g.productions[k].lhs :
                        k \in {j \in 1..Len(g.productions) : Range(g.productions[j].rhs) \subseteq N}}
    IN  IF N1 = N THEN N ELSE NullableFrom(N1, g)

Nullable(g) == NullableFrom({Eps}, g)

\* terminals that begin the sequence beta, given the terminals T[X] beginning each symbol
FirstOfSeq(T, beta, g) ==
    UNION {T[beta[k]] : k \in {j \in 1..Len(beta) : \A i \in 1..(j - 1) : beta[i] \in Nullable(g)}}

RECURSIVE BeginFrom(_, _)
BeginFrom(T, g) ==
    LET T1 == [X \in DOMAIN T |->
                T[X] \cup UNION {FirstOfSeq(T, g.productions[k].rhs, g) :
                                    k \in {j \in 1..Len(g.productions) : g.productions[j].lhs = X}}]
    IN  IF T1 = T THEN T ELSE BeginFrom(T1, g)

\* FIRST without the marker: the terminals that begin the strings derived from X
Begin(g) ==
    BeginFrom([X \in g.terminals \cup g.non_terminals |->
                IF X \in g.non_terminals \/ X = Eps THEN {} ELSE {X}], g)

Suffix(rhs, k) == SubSeq(rhs, k + 1, Len(rhs))

RECURSIVE LeastFollowFrom(_, _)
LeastFollowFrom(F, g) ==
    LET occ == UNION {{<<k, i>> : i \in 1..Len(g.productions[k].rhs)} : k \in 1..Len(g.productions)}
        F1 == [B \in DOMAIN F |->
                F[B] \cup UNION {FirstOfSeq(Begin(g), Suffix(g.productions[o[1]].rhs, o[2]), g)
                                   \cup (IF Range(Suffix(g.productions[o[1]].rhs, o[2])) \subseteq Nullable(g)
                                         THEN F[g.productions[o[1]].lhs] ELSE {}) :
                                 o \in {q \in occ : g.productions[q[1]].rhs[q[2]] = B}}]
    IN  IF F1 = F THEN F ELSE LeastFollowFrom(F1, g)

\* least FOLLOW sets: $ follows the start symbol; for A -> alpha B beta what begins
\* beta follows B, and what follows A follows B when beta derives the empty string
LeastFollow(g) == LeastFollowFrom([B \in g.non_terminals |-> IF B = g.start_symbol THEN {EndMarker} ELSE {}], g)

\* <<X, i, j>>: symbol X derives w[i+1..j]
RECURSIVE SeqDerives(_, _, _, _)
SeqDerives(D, rhs, i, j) ==
    IF rhs = <<>> THEN i = j
    ELSE \E m \in i..j : <<Head(rhs), i, m>> \in D /\ SeqDerives(D, Tail(rhs), m, j)

RECURSIVE DerivesFrom(_, _, _)
DerivesFrom(D, g, n) ==
    LET D1 == D \cup {<<g.productions[t[1]].lhs, t[2], t[3]>> :
                        t \in {u \in (1..Len(g.productions)) \X (0..n) \X (0..n) :
                                u[2] <= u[3] /\ SeqDerives(D, g.productions[u[1]].rhs, u[2], u[3])}}
    IN  IF D1 = D THEN D ELSE DerivesFrom(D1, g, n)

\* the start symbol of g derives the sentence w (the marker stands for the empty string)
Derivable(g, w) ==
    LET n  == Len(w)
        D0 == {<<w[i], i - 1, i>> : i \in {k \in 1..n : w[k] \in g.terminals \ {Eps}}}
                \cup {<<Eps, i, i>> : i \in 0..n}
    IN  <<g.start_symbol, 0, n>> \in DerivesFrom(D0, g, n)

Kinds(tokens) == [k \in 1..Len(tokens) |-> tokens[k].kind]

IsExpr    == grammar = LoadGrammar(ExprGrammarFile)
IsExprAug == grammar = Augment(LoadGrammar(ExprGrammarFile))
TableReturned == pc \in {"parse", "driver", "done"}

-----------------------------------------------------------------------------
(* Claims *)

\* C3: a table is returned only if no ACTION or GOTO entry was overwritten by a
\* different action while it was built (a conflicting grammar is rejected instead).
C3_NoOverwriteInReturnedTable == TableReturned => ~tbl.overwritten

\* C4: the driver returns True on a token stream iff the grammar derives it.
C4_AcceptIffDerivable ==
    pc = "done" => ((result.value = "True") <=> Derivable(grammar, Kinds(token_list)))

\* C5: every state holding an item of A ::= eps has reduce(A ::= eps) at every
\* terminal of FOLLOW(A), and a sentence in which such an A derives the empty
\* string (no eps token in the input) is accepted.
C5_EpsilonProductions ==
    /\ TableReturned =>
        \A idx \in 0..(Len(states) - 1) : \A item \in states[idx + 1] :
            item.rhs = <<Eps>> =>
                \A t \in follow[item.lhs] :
                    /\ <<idx, t>> \in DOMAIN action_table
                    /\ action_table[<<idx, t>>] = ReduceAction(item.lhs, item.rhs)
    /\ (pc = "done" /\ Eps \notin Range(Kinds(token_list)) /\ Derivable(grammar, Kinds(token_list)))
            => result.value = "True"

\* C6: compute_follow returns exactly the least FOLLOW sets of the grammar.
C6_FollowIsLeast == pc = "canonical" => follow = LeastFollow(grammar)

\* C7: when compute_first returns, FIRST(X) holds the marker iff X derives the empty
\* string, FIRST(t) = {t} for every terminal t, and $ is in no FIRST set.
C7_FirstNullable ==
    pc = "follow" =>
        /\ DOMAIN first = grammar.terminals \cup grammar.non_terminals
        /\ \A X \in DOMAIN first :
            /\ (Eps \in first[X]) <=> (X \in Nullable(grammar))
            /\ X \in grammar.terminals => first[X] = {X}
            /\ EndMarker \notin first[X]

\* C7 witness: compute_first has returned for a grammar in which a non-terminal is
\* nullable only through other non-terminals and also begins with a terminal
C7_Witness ==
    /\ pc = "follow"
    /\ \E X \in grammar.non_terminals :
        /\ Eps \in first[X]
        /\ first[X] # {Eps}
        /\ \A k \in 1..Len(grammar.productions) :
            grammar.productions[k].lhs = X => grammar.productions[k].rhs \notin {<<>>, <<Eps>>}

\* C8: scenario S3: FIRST and FOLLOW of the expression grammar.
C8_ScenarioS3 ==
    /\ (IsExpr /\ pc = "follow") =>
        /\ first["E"] = {"(", "id"}
        /\ first["T"] = {"(", "id"}
        /\ first["F"] = {"(", "id"}
    /\ (IsExpr /\ pc = "canonical") =>
        /\ follow["E"] = {"$", "+", ")"}
        /\ follow["T"] = {"$", "+", "*", ")"}
        /\ follow["F"] = {"$", "+", "*", ")"}

\* C8 witness: both functions have returned for the expression grammar
C8_Witness == IsExpr /\ pc = "canonical" /\ DOMAIN follow = {"E", "T", "F"} /\ first["F"] # {}

S4Loaded == IsExprAug /\ token_list = load_tokens_from_file(S4TokenFile)

\* C9: scenario S4: on id + id * ( id ) with the tables of the expression grammar every
\* step of the driver is a shift, a reduce or the accept action (never a rejection),
\* and when the driver has returned, it returned True through the accept action.
C9_ScenarioS4Accepted ==
    S4Loaded =>
        /\ pc = "driver" => ENABLED (Shift \/ Reduce \/ Accept)
        /\ pc = "done" => result = Outcome("True", "accept")

\* C9 witness: the driver has accepted the S4 stream after consuming its seven tokens
C9_Witness == S4Loaded /\ pc = "done" /\ result.value = "True" /\ pointer = 7 /\ Len(stack) = 3

HasEntry(lexeme, index, category) ==
    /\ lexeme \in DOMAIN symbol_table.symbols
    /\ symbol_table.symbols[lexeme] = [index |-> index, category |-> category]

S4Done == S4Loaded /\ pc = "done" /\ result.value = "True"

\* C10 as stated: after S4 is accepted the table holds a1, b, c (ID) with indices 1, 2, 3.
C10_SymbolTableAsStated ==
    S4Done => HasEntry("a1", 1, "ID") /\ HasEntry("b", 2, "ID") /\ HasEntry("c", 3, "ID")

\* C10 amended: every shifted lexeme is interned, the operators too, so after S4 is
\* accepted a1, b, c (ID) have indices 1, 3, 6 and + * ( ) have 2, 4, 5, 7.
C10_SymbolTableS4 ==
    S4Done =>
        /\ HasEntry("a1", 1, "ID") /\ HasEntry("b", 3, "ID") /\ HasEntry("c", 6, "ID")
        /\ HasEntry("+", 2, "ID") /\ HasEntry("*", 4, "ID")
        /\ HasEntry("(", 5, "ID") /\ HasEntry(")", 7, "ID")
        /\ DOMAIN symbol_table.symbols = {"a1", "b", "c", "+", "*", "(", ")"}

\* C10 witness: S4 has been accepted and seven lexemes were interned
C10_Witness == S4Done /\ symbol_table.counter = 8

-----------------------------------------------------------------------------
(* Lexer claims *)

\* the state a pattern's own DFA file reaches from state q on the string w (-1: none)
RECURSIVE FileRun(_, _, _)
FileRun(file, q, w) ==
    IF w = <<>> THEN q
    ELSE LET nxt == {l[3] : l \in {m \in Range(file.lines) : m[1] = q /\ m[2] = Head(w)}}
         IN  IF nxt = {} THEN -1 ELSE FileRun(file, CHOOSE d \in nxt : TRUE, Tail(w))

FileAccepts(file, w) == FileRun(file, file.start, w) \in file.accepts

\* the combined DFA, run from its start state on the string w (None: no such path)
RECURSIVE DfaRun(_, _, _)
DfaRun(dfa, D, w) ==
    IF w = <<>> THEN D
    ELSE IF Head(w) \in DOMAIN Row(dfa.transitions, D)
         THEN DfaRun(dfa, dfa.transitions[D][Head(w)], Tail(w))
         ELSE None

\* lengths n >= 1 of the prefixes of text[from..] that the DFA accepts
AcceptedLengths(dfa, text, from) ==
    {n \in 1..(Len(text) - from) :
        DfaRun(dfa, dfa.start_state, SubSeq(text, from + 1, from + n)) \in dfa.accept_states}

LastToken == lex.tokens[Len(lex.tokens)]
LastTokenStart == lex.i - Len(LastToken.lexeme)
TokenEmitted == lex.pc \in {"outer", "done"} /\ lex.tokens # <<>>

\* C1: a non-error token emitted at position i is text[i..i+n) for the largest n such
\* that the DFA, run from its start state on that prefix, ends in an accepting state.
C1_LongestMatch ==
    (TokenEmitted /\ LastToken.kind # "erro!") =>
        LET lengths == AcceptedLengths(lex.dfa, lex.text, LastTokenStart)
        IN  /\ lengths # {}
            /\ Len(LastToken.lexeme) = Max(lengths)
            /\ LastToken.lexeme = SubSeq(lex.text, LastTokenStart + 1, LastTokenStart + Max(lengths))

\* C1 witness: a token was emitted after the scanner ran past its end and fell back
C1_Witness ==
    /\ TokenEmitted
    /\ LastToken.kind # "erro!"
    /\ lex.current_index > lex.i
    /\ Cardinality(AcceptedLengths(lex.dfa, lex.text, LastTokenStart)) >= 2

\* the patterns of the regex file, by position, whose own DFA accepts the string w
AcceptingPatterns(w) == {k \in 1..Len(lex.patterns) : FileAccepts(lex.patterns[k].file, w)}

C2_WitnessSwapped ==
    /\ TokenEmitted
    /\ lex.patterns = <<IdPattern, KwPattern>>
    /\ LastToken = Token(<<"a", "b">>, "id")

-----------------------------------------------------------------------------
(* Driver claims *)

S5Loaded == IsExprAug /\ token_list = load_tokens_from_file(S5TokenFile)

\* C11: scenario S5: on id + with the tables of the expression grammar the driver shifts
\* id and +, then finds no ACTION for (current state, $) and returns False; it never
\* accepts and it does not reject before both tokens are shifted.
C11_ScenarioS5Rejected ==
    S5Loaded =>
        /\ result.value # "True"
        /\ pc = "driver" => ENABLED (Shift \/ Reduce \/ SyntaxReject)
        /\ pc = "done" =>
            /\ result = Outcome("False", "syntax")
            /\ pointer = 2
            /\ CurToken.kind = EndMarker
            /\ CurKey \notin DOMAIN action_table
            /\ \E k \in 1..Len(stack) : stack[k] = SymbolEntry("+")
            /\ DOMAIN symbol_table.symbols = {"a1", "+"}

\* C11 witness: the driver has returned False on the S5 stream at the end marker
C11_Witness ==
    S5Loaded /\ pc = "done" /\ result.value = "False" /\ pointer = 2 /\ stack[Len(stack) - 1] = SymbolEntry("+")

\* the lexemes of the tokens emitted so far, joined
Lexemes == Flatten([k \in 1..Len(lex.tokens) |-> lex.tokens[k].lexeme])

\* C12: an erro! token is emitted at position i exactly when no prefix of text[i..] is
\* accepted; it holds the single character text[i] and scanning resumes at i + 1, so
\* the tokens always spell the text scanned so far and, on return, the whole text.  With
\* the id pattern alone, the text 1a gives <1, erro!> <a, id>.
C12_LexicalErrorRecovery ==
    /\ lex.pc \in {"outer", "inner", "done"} => Lexemes = SubSeq(lex.text, 1, lex.i)
    /\ lex.pc = "done" => Lexemes = lex.text
    /\ TokenEmitted =>
        /\ (AcceptedLengths(lex.dfa, lex.text, LastTokenStart) = {}) <=> (LastToken.kind = "erro!")
        /\ LastToken.kind = "erro!" => LastToken.lexeme = <<lex.text[lex.i]>>
    /\ (lex.pc = "done" /\ lex.patterns = <<IdPattern>> /\ lex.text = <<"1", "a">>) =>
            lex.tokens = <<Token(<<"1">>, "erro!"), Token(<<"a">>, "id")>>

\* C12 witness: the id pattern alone has tokenized 1a, an error followed by an id
C12_Witness ==
    /\ lex.pc = "done"
    /\ lex.patterns = <<IdPattern>>
    /\ lex.text = <<"1", "a">>
    /\ Len(lex.tokens) = 2
    /\ lex.tokens[1].kind = "erro!"

\* the combined DFA has been built and is about to be used
DfaBuilt == lex.pc = "lexer"

\* the DFA state the combined DFA reaches on the string w
Reached(w) == DfaRun(lex.dfa, lex.dfa.start_state, w)

\* C13: a string accepted by exactly one pattern's own DFA is accepted by the DFA that
\* to_afd builds from the left-fold union, and resolves to that pattern's name; a string
\* accepted by no pattern is not accepted by the combined DFA.
C13_UnionLanguage ==
    DfaBuilt =>
        \A w \in Texts :
            /\ AcceptingPatterns(w) = {} => Reached(w) \notin lex.dfa.accept_states
            /\ Cardinality(AcceptingPatterns(w)) = 1 =>
                /\ Reached(w) \in lex.dfa.accept_states
                /\ ResolveToken(Reached(w), lex.token_map) =
                        lex.patterns[CHOOSE k \in AcceptingPatterns(w) : TRUE].name

\* C13 witness: a DFA built from two patterns, with a string only the second accepts,
\* a string only the first accepts and a string neither accepts
C13_Witness ==
    /\ DfaBuilt
    /\ Len(lex.patterns) = 2
    /\ \E w \in Texts : AcceptingPatterns(w) = {2} /\ Reached(w) \in lex.dfa.accept_states
    /\ \E w \in Texts : AcceptingPatterns(w) = {1}
    /\ \E w \in Texts : w # <<>> /\ AcceptingPatterns(w) = {} /\ Reached(w) # None

\* the tokens scenario S1 expects for a1+b*(c)
S1Tokens ==
    << Token(<<"a", "1">>, "id"), Token(<<"+">>, "plus"), Token(<<"b">>, "id"),
       Token(<<"*">>, "times"), Token(<<"(">>, "lpar"), Token(<<"c">>, "id"),
       Token(<<")">>, "rpar") >>

\* C14: scenario S1: the regex file id, plus: +, times: *, lpar: (, rpar: ) compiles, and
\* tokenizing a1+b*(c) with the DFA built from it yields <a1,id> <+,plus> <b,id>
\* <*,times> <(,lpar> <c,id> <),rpar>.
C14_ScenarioS1 ==
    lex.regexes = S1RegexFile =>
        /\ lex.pc # "raise"
        /\ (lex.pc = "done" /\ lex.text = S1Text) => lex.tokens = S1Tokens

\* the operators written as escapes do not give the tokens of S1 either
C14_ScenarioS1Escaped ==
    (lex.regexes = S1EscapedRegexFile /\ lex.pc = "done" /\ lex.text = S1Text) =>
        lex.tokens = S1Tokens


\* C15: the driver loop, once entered, ends: no run stays in it forever
C15_DriverTerminates == (pc = "driver") ~> (pc = "done")


HasErrorToken == \E k \in 1..Len(token_list) : token_list[k].kind = "erro!"

\* C16: a loaded token stream with an erro! token anywhere is rejected at once: the
\* call has returned False, no stack was created, the pointer never moved, nothing
\* was interned, and no driver step can follow
C16_LexicalRejectBeforeStepping ==
    HasErrorToken =>
        /\ pc = "done"
        /\ result = Outcome("False", "lexical")
        /\ stack = <<>>
        /\ pointer = 0
        /\ symbol_table = NewSymbolTable
        /\ ~ENABLED DriverStep

\* an erro! token after two good ones
C16_Witness ==
    /\ HasErrorToken
    /\ Len(token_list) = 3
    /\ token_list[1].kind # "erro!"
    /\ token_list[2].kind # "erro!"
    /\ result = Outcome("False", "lexical")


\* the text was taken as one token that is not an error
WholeTextToken == Len(lex.tokens) = 1 /\ lex.tokens[1].kind # "erro!"

\* C17: simulate_dfa_on_line returns (line, kind) with kind other than erro! exactly when
\* the DFA has a transition for every character of the line in turn and ends in an
\* accepting state, kind being that of the smallest tagged sub-state; and on a text that
\* simulate_dfa_on_text has scanned, the per-line variant gives a non-error kind exactly
\* when the scan gave that one token for the whole text.
C17_PerLineAgrees ==
    /\ lex.pc = "line" =>
        /\ lex.tokens[1].lexeme = lex.text
        /\ lex.tokens[1].kind # "erro!" <=> Reached(lex.text) \in lex.dfa.accept_states
        /\ lex.tokens[1].kind # "erro!" =>
                lex.tokens[1].kind = ResolveToken(Reached(lex.text), lex.token_map)
    /\ (lex.pc = "done" /\ lex.text # <<>>) =>
        LET line == simulate_dfa_on_line(lex.dfa, lex.token_map, lex.text)
        IN  /\ WholeTextToken <=> line.kind # "erro!"
            /\ WholeTextToken => lex.tokens[1] = line


\* the driver is at the top of its loop with a reduce as the action of (state, token)
ReduceChosen == pc = "driver" /\ CurKey \in DOMAIN action_table /\ CurAction.kind = "reduce"

\* C18: a reduce by A -> X1...Xk takes exactly 2k entries off the stack (none when the
\* rhs is the epsilon marker or empty), which leaves a non-empty stack, does not move
\* the pointer, and, GOTO being defined at the uncovered state, pushes A and that
\* GOTO entry on what is left.
C18_ReduceStep ==
    [][ReduceChosen =>
        LET k     == IF CurAction.rhs \in {<<Eps>>, <<>>} THEN 0 ELSE Len(CurAction.rhs)
            below == SubSeq(stack, 1, Len(stack) - 2 * k)
        IN  /\ below # <<>>
            /\ pointer' = pointer
            /\ stack' # <<>>
            /\ <<below[Len(below)].st, CurAction.lhs>> \in DOMAIN goto_table =>
                    stack' = below \o <<SymbolEntry(CurAction.lhs),
                                        StateEntry(goto_table[<<below[Len(below)].st, CurAction.lhs>>])>>
    ]_vars


\* canonical_collection has returned
CollectionReturned == pc = "table"

GrammarSymbols == grammar.terminals \cup grammar.non_terminals

\* C19: the first state is the closure of the start item, no two states are the same
\* item set, every non-empty goto(I, X) of a state I is a state and is what transitions
\* holds at (I, X), and every transition leads to a state.
C19_CanonicalCollection ==
    CollectionReturned =>
        /\ states[1] = closure({Item(grammar.start_symbol, <<grammar.productions[1].rhs[1]>>, 0)}, grammar)
        /\ \A i, j \in 1..Len(states) : i # j => states[i] # states[j]
        /\ \A I \in Range(states), X \in GrammarSymbols :
                goto(I, X, grammar) # {} =>
                    /\ goto(I, X, grammar) \in Range(states)
                    /\ <<I, X>> \in DOMAIN transitions
                    /\ transitions[<<I, X>>] = goto(I, X, grammar)
        /\ \A key \in DOMAIN transitions : transitions[key] \in Range(states)

\* a collection of five states or more with a transition from a state to itself and a
\* transition on a symbol whose dot is past the start
C19_Witness ==
    /\ CollectionReturned
    /\ Len(states) >= 5
    /\ \E key \in DOMAIN transitions : transitions[key] = key[1]
    /\ \E key \in DOMAIN transitions : \E item \in key[1] :
            item.dot > 0 /\ item.dot < Len(item.rhs) /\ NextSymbol(item) = key[2]

\* C20: closure contains its argument and is idempotent, and goto of any item set on
\* any symbol is closed.
C20_ClosureProperties ==
    /\ pc \in {"goto", "closed"} =>
        /\ states[1] \subseteq states[2]
        /\ closure(states[2], grammar) = states[2]
    /\ pc = "closed" => closure(states[3], grammar) = states[3]

\* an item set that closure enlarges, and a goto of it that holds more than the moved items
C20_Witness ==
    /\ pc = "closed"
    /\ states[1] # {}
    /\ states[2] # states[1]
    /\ \E item \in states[3] : item.dot = 0
    /\ \E item \in states[3] : item.dot > 0


\* the symbols on the right-hand sides of a grammar's productions
RhsSymbols(productions) == UNION {Range(productions[k].rhs) : k \in 1..Len(productions)}

\* the grammar invariant: no symbol is both a terminal and a non-terminal, and the
\* terminals are the right-hand side symbols that are not non-terminals
GrammarInvariant(g) ==
    /\ g.terminals \cap g.non_terminals = {}
    /\ g.terminals = RhsSymbols(g.productions) \ g.non_terminals

\* C21: the grammar invariant holds after load_grammar and after the augmentation of
\* canonical_collection; the augmented start occurs nowhere in the grammar as loaded,
\* its production S' -> S is the first production, and it is the start symbol.
C21_GrammarInvariant ==
    /\ pc = "canonical" => GrammarInvariant(grammar)
    /\ CollectionReturned =>
        LET loaded == Tail(grammar.productions)
        IN  /\ GrammarInvariant(grammar)
            /\ grammar.productions[1] = [lhs |-> grammar.start_symbol, rhs |-> <<loaded[1].lhs>>]
            /\ grammar.start_symbol \in grammar.non_terminals
            /\ grammar.start_symbol \notin
                    RhsSymbols(loaded) \cup {loaded[k].lhs : k \in 1..Len(loaded)}


\* compute_follow has returned and the grammar is still the one it was given
FollowReturned == pc = "canonical"

\* C22: when compute_follow returns, the FIRST map it was given is what compute_first
\* built: first[X] is unchanged for every symbol X, and still {t} for a terminal t.
C22_FollowLeavesFirst ==
    FollowReturned =>
        /\ first = compute_first(grammar)
        /\ \A t \in grammar.terminals : first[t] = {t}


\* the automata main.py loads, in file order, and the accumulator of reduce after k of them
LoadedAfns ==
    [k \in 1..Len(lex.patterns) |-> load_afd_from_file(lex.patterns[k].file, lex.patterns[k].name)]
FoldedUnion(afns, k) == UnionFold(afns[1], SubSeq(afns, 1, k), 2)

\* U = union(A, N), with No the offset copy of N
UnionShape(A, N, U) ==
    LET No == offset_states(N, Max(A.states) + 1)
    IN  /\ A.states \cap No.states = {}
        /\ U.start_state = Max(A.states \cup No.states) + 1
        /\ U.start_state \notin A.states \cup No.states
        /\ U.states = A.states \cup No.states \cup {U.start_state}
        /\ U.transitions[U.start_state] = ("eps" :> {A.start_state, No.start_state})
        /\ \A q \in DOMAIN U.transitions \ {U.start_state} :
                \A symbol \in DOMAIN U.transitions[q] : U.start_state \notin U.transitions[q][symbol]
        /\ U.final_states = A.final_states \cup No.final_states
        /\ DOMAIN U.token_types = DOMAIN A.token_types \cup DOMAIN No.token_types
        /\ \A f \in DOMAIN A.token_types : U.token_types[f] = A.token_types[f]
        /\ \A f \in DOMAIN No.token_types : U.token_types[f] = No.token_types[f]

UnionReturned == lex.pc = "to_afd"

\* C23: every union of the fold keeps the operands' state sets disjoint, numbers the new
\* start max(states)+1 outside both, gives it only the two epsilon edges to the operands'
\* starts, and keeps every final state and every (final -> token kind) entry of both.
C23_UnionDisjoint ==
    UnionReturned =>
        /\ lex.union_afn = FoldedUnion(LoadedAfns, Len(lex.patterns))
        /\ \A k \in 2..Len(lex.patterns) :
                UnionShape(FoldedUnion(LoadedAfns, k - 1), LoadedAfns[k], FoldedUnion(LoadedAfns, k))

\* a fold of at least two unions has returned, the operands' finals carrying different kinds
C23_Witness ==
    /\ UnionReturned
    /\ Len(lex.patterns) >= 3
    /\ Cardinality({lex.union_afn.token_types[f] : f \in DOMAIN lex.union_afn.token_types}) >= 3


\* the automaton loaded from one DFA file, as the claim describes it
LoadedShape(file, token_type, afn) ==
    /\ \A q \in DOMAIN afn.transitions : Eps \notin DOMAIN afn.transitions[q]
    /\ afn.states = 0..(file.num_states - 1)
    /\ afn.start_state \in afn.states
    /\ afn.final_states \subseteq afn.states
    /\ \A q \in DOMAIN afn.transitions : \A symbol \in DOMAIN afn.transitions[q] :
            afn.transitions[q][symbol] \subseteq afn.states
    /\ afn.token_types = [f \in afn.final_states |-> token_type]

\* C24: every automaton load_afd_from_file returns has no epsilon edges, has the dense
\* state set 0..k-1 holding the start, the finals and every destination, and tags every
\* final state with the caller's token kind.
C24_LoaderShape ==
    UnionReturned =>
        \A k \in 1..Len(lex.patterns) :
            LoadedShape(lex.patterns[k].file, lex.patterns[k].name, LoadedAfns[k])


\* C is the epsilon-closure of S: the least set holding S and closed under epsilon edges
EpsClosed(afn, C) == \A q \in C : Dests(afn.transitions, q, Eps) \subseteq C
IsEpsilonClosure(afn, S, C) ==
    /\ S \subseteq C
    /\ EpsClosed(afn, C)
    /\ \A smaller \in SUBSET C : (S \subseteq smaller /\ EpsClosed(afn, smaller)) => smaller = C

\* the DFA states reachable from the states of R along the DFA's transitions
RECURSIVE DfaReach(_, _)
DfaReach(afd, R) ==
    LET next == UNION {{afd.transitions[D][symbol] : symbol \in DOMAIN afd.transitions[D]} :
                            D \in R \cap DOMAIN afd.transitions}
    IN  IF next \subseteq R THEN R ELSE DfaReach(afd, R \cup next)

SubsetConstruction(afn, afd) ==
    LET dstates == DOMAIN afd.transitions
        symbols == afn.alphabet \ {Eps}
        moved(D, symbol) == UNION {Dests(afn.transitions, q, symbol) : q \in D}
    IN  /\ IsEpsilonClosure(afn, {afn.start_state}, afd.start_state)
        /\ dstates = DfaReach(afd, {afd.start_state})
        /\ \A D \in dstates : D # {} /\ D \subseteq afn.states /\ EpsClosed(afn, D)
        /\ \A D \in dstates :
            /\ DOMAIN afd.transitions[D] \subseteq symbols
            /\ \A symbol \in symbols :
                IF moved(D, symbol) # {}
                THEN /\ symbol \in DOMAIN afd.transitions[D]
                     /\ IsEpsilonClosure(afn, moved(D, symbol), afd.transitions[D][symbol])
                ELSE symbol \notin DOMAIN afd.transitions[D]
        /\ afd.accept_states = {D \in dstates : D \cap afn.final_states # {}}

\* C25: the DFA to_afd returns starts at the epsilon-closure of the NFA start; its states
\* are non-empty, epsilon-closed and reachable; its transition on a symbol is the
\* epsilon-closure of the move when that is non-empty and undefined otherwise; a state
\* accepts exactly when it holds an NFA final state.
C25_SubsetConstruction == DfaBuilt => SubsetConstruction(lex.union_afn, lex.dfa)

\* the start closure needed two rounds of epsilon edges
C25_Witness ==
    /\ DfaBuilt
    /\ \E q \in lex.dfa.start_state :
            q \notin {lex.union_afn.start_state}
                        \cup Dests(lex.union_afn.transitions, lex.union_afn.start_state, Eps)


\* build_afd has returned the DFA of one pattern
AfdBuilt == lex.pc = "export"

\* the leaf to_postfix appended: the last one
EndLeaf(leaf_positions) == Len(leaf_positions)

\* C26: in the DFA build_afd returns, the end-marker is the only leaf with the symbol #,
\* a state accepts exactly when it holds the end-marker's position, no transition is
\* labelled #, and every leaf symbol of the user's pattern labels a transition.
C26_DirectDfaAcceptance ==
    AfdBuilt =>
        LET leaf_positions == lex.regex.leaf_positions
            afd            == lex.regex.afd
            end            == EndLeaf(leaf_positions)
        IN  /\ {p \in 1..Len(leaf_positions) : leaf_positions[p] = "#"} = {end}
            /\ afd.accept_states = {D \in Range(afd.dstates) : end \in D}
            /\ \A D \in DOMAIN afd.transitions : "#" \notin DOMAIN afd.transitions[D]
            /\ \A p \in 1..(end - 1) :
                    \E D \in DOMAIN afd.transitions : leaf_positions[p] \in DOMAIN afd.transitions[D]


\* the pattern main.py is compiling, and to_postfix has run on it
PostfixAttempted == lex.pc \in {"syntax_tree", "raise"}
CompiledPattern == lex.regexes[Len(lex.patterns) + 1].pattern

\* the rule as stated: an operand is an escape or any character that is no operator
\* and no parenthesis; '.' goes between an operand, ')' or a postfix operator and an
\* operand or '('
StatedOperand(token) == IsEscape(token) \/ token \notin {"(", ")", "|", "*", "+", "?", "."}
StatedConcat(curr, next_tok) ==
    /\ StatedOperand(curr) \/ curr \in {")", "*", "+", "?"}
    /\ StatedOperand(next_tok) \/ next_tok = "("
StatedExplicit(tokens) ==
    ConcatRange([j \in 1..Len(tokens) |->
                    <<tokens[j]>> \o (IF j + 1 <= Len(tokens) /\ StatedConcat(tokens[j], tokens[j + 1])
                                      THEN <<".">> ELSE <<>>)], 1, Len(tokens))

\* C27: the tokens to_postfix works on carry a '.' between tok_i and tok_i+1 exactly when
\* tok_i is an operand, ')' or a postfix operator and tok_i+1 is an operand or '(';
\* operands separated by whitespace only, and literals that are no letters or digits,
\* are concatenated like any other operands.
C27_ExplicitConcatenation ==
    PostfixAttempted =>
        LET expanded == expand_character_classes(CompiledPattern)
        IN  tokenize(add_concatenation_symbols(expanded)) = StatedExplicit(tokenize(expanded))


\* the lexemes the driver has passed to add_or_get so far, in call order
InternedLexemes == [k \in 1..pointer |-> token_list[k].lexeme]

\* the table after the calls add_or_get(lexemes[1]), ..., as the claim describes it
TableShape(table, lexemes) ==
    /\ DOMAIN table.symbols = Range(lexemes)
    /\ {table.symbols[l].index : l \in DOMAIN table.symbols} = 1..Cardinality(DOMAIN table.symbols)
    /\ \A l \in DOMAIN table.symbols :
        LET first_at == Min({k \in 1..Len(lexemes) : lexemes[k] = l})
        IN  /\ table.symbols[l].index = Cardinality({lexemes[j] : j \in 1..first_at})
            /\ table.symbols[l].category = (IF l \in reserved_words THEN "PR" ELSE "ID")

\* C28: every step of the program leaves the entries of the symbol table as they were
\* (the call on a repeated lexeme returns the entry it made the first time), and the
\* table after the step numbers the distinct lexemes 1..n in order of first appearance,
\* with category PR for a reserved word and ID otherwise.
C28_SymbolTableAppendOnly ==
    [][/\ \A l \in DOMAIN symbol_table.symbols :
            l \in DOMAIN symbol_table'.symbols /\ symbol_table'.symbols[l] = symbol_table.symbols[l]
       /\ TableShape(symbol_table', InternedLexemes')]_vars

\* a repeated lexeme and a reserved word have been interned
C28_Witness ==
    /\ Cardinality(DOMAIN symbol_table.symbols) < pointer
    /\ \E l \in DOMAIN symbol_table.symbols : symbol_table.symbols[l].category = "PR"


\* C29: on every DFA and text simulate_dfa_on_text returns; no lexeme it emits is empty,
\* also when the start state is accepting; and the lexemes, joined, are the text.
C29_CoverageAndProgress ==
    /\ [](lex.pc \in {"outer", "inner", "done"} =>
            /\ \A k \in 1..Len(lex.tokens) : lex.tokens[k].lexeme # <<>>
            /\ lex.i <= Len(lex.text)
            /\ lex.pc = "done" => Flatten([k \in 1..Len(lex.tokens) |-> lex.tokens[k].lexeme]) = lex.text)
    /\ (lex.pc = "outer") ~> (lex.pc = "done")

\* a DFA whose start state is accepting has returned from a text it could not begin
C29_Witness ==
    /\ lex.pc = "done"
    /\ lex.dfa.start_state \in lex.dfa.accept_states
    /\ lex.tokens # <<>>
    /\ lex.tokens[1].kind = "erro!"
    /\ Len(lex.tokens) >= 2


\* the driver loop is running, or has just left through a return or an exception
InDriverLoop == pc = "driver" \/ (pc = "done" /\ result.why # "lexical")

\* the ($, $) sentinel is the last of input_tokens; pointer counts from 0
SentinelIndex == Len(token_list)

\* C30: in every state the driver loop reaches the stack is non-empty and of odd length,
\* holds state 0 at the bottom, alternates state indices and grammar symbols, and has on
\* top a state index of the tables; the pointer never passes the ($, $) sentinel.
C30_StackShape ==
    InDriverLoop =>
        /\ stack # <<>>
        /\ Len(stack) % 2 = 1
        /\ stack[1] = StateEntry(0)
        /\ \A k \in 1..Len(stack) :
                IF k % 2 = 1 THEN stack[k].st \in 0..(Len(states) - 1) /\ stack[k].sym = ""
                ELSE stack[k].st = -1 /\ stack[k].sym \in grammar.terminals \cup grammar.non_terminals
        /\ pointer \in 0..SentinelIndex

=============================================================================
